---- MODULE Spec2Model ----
(***************************************************************************)
(* Finalizer-driven lifecycle of one Machine in the Azure provider plugin  *)
(* (provider.Create and provider.Cleanup), against a backend of named,     *)
(* UID-tagged resources.  Each remote call and each data.Update of a       *)
(* handler is one step; a step either succeeds or returns its error.       *)
(***************************************************************************)
EXTENDS Integers, Sequences, FiniteSets, TLC

VARIABLES
    store,      \* Finalizers of the Machine record as persisted in the record store
    machine,    \* the *clusterv1alpha1.Machine object the running handler was called with
    cfg,        \* the resolved configuration of the Machine's ProviderSpec
    pc,         \* position of the running handler, "idle" between invocations
    vms,        \* backend: virtual machines
    ifaces,     \* backend: network interfaces
    ips,        \* backend: public IP addresses
    disks,      \* backend: managed disks
    result,     \* what the last invocation returned
    calls,      \* remote calls and Updates of the running (or last) invocation, in order
    removed,    \* finalizers removed by the running (or last) invocation, in order
    startFin,   \* the persisted finalizers when the running (or last) invocation began
    vmGone,     \* a Cleanup deleted the VM and removed its finalizer, and no Create began since
    startBackend, \* the backend when the running (or last) invocation began
    migrateTo,  \* the newUID argument of the running (or last) MigrateUID, "" otherwise
    repeat,     \* the running (or last) MigrateUID repeats the successful one just before it
    iv,         \* the instance view handed to getVMStatus where the status mapping is examined
    cacheLock,  \* the goroutine holding the mutex of the SKU cache, "free" otherwise
    cache,      \* the keys the SKU cache holds a value for
    callers,    \* the goroutines calling getSKU: position, key asked for, how the last call ended
    fetched,    \* per key, the outcomes of the remote fetches since the key last expired
    storeB,     \* Finalizers of a second Machine's record
    input,      \* the arguments handed to a pure function where it is examined
    driver      \* what the Driver invokes on the Machine: "any" handler, or only "Create" or "Cleanup"

vars == <<store, machine, cfg, pc, vms, ifaces, ips, disks, result, calls, removed, startFin, vmGone,
          startBackend, migrateTo, repeat, iv, cacheLock, cache, callers, fetched, storeB, input,
          driver>>

backend == <<vms, ifaces, ips, disks>>

(* The SKU cache shared by the goroutines of the process. *)
shared == <<cacheLock, cache, callers, fetched>>

(* What no handler of this Machine touches. *)
aside == <<shared, storeB, input, driver>>

(* What no step inside Create or Cleanup changes. *)
held == <<startBackend, migrateTo, repeat, iv, aside>>

-----------------------------------------------------------------------------
(* Constants of the provider. *)

finalizerPublicIP == "kubermatic.io/cleanup-azure-public-ip"
finalizerPublicIPv6 == "kubermatic.io/cleanup-azure-public-ipv6"
finalizerNIC == "kubermatic.io/cleanup-azure-nic"
finalizerDisks == "kubermatic.io/cleanup-azure-disks"
finalizerVM == "kubermatic.io/cleanup-azure-vm"

LifecycleFinalizers ==
    {finalizerPublicIP, finalizerPublicIPv6, finalizerNIC, finalizerDisks, finalizerVM}

(* util.IPFamily values returned by providerCfg.Network.GetIPFamily(). *)
Unspecified == ""
IPv4 == "IPv4"
IPv6 == "IPv6"
DualStack == "IPv4+IPv6"

IPFamilies == {Unspecified, IPv4, IPv6, DualStack}

(* A family string that is none of the four. *)
UnknownFamily == "IPv6+IPv4"

(* The Machine the Driver reconciles: its identity never changes. *)
MachineName == "m1"
MachineUID == "uid-1"

-----------------------------------------------------------------------------
(* Helpers on finalizer lists. *)

HasFinalizer(fins, f) == \E i \in DOMAIN fins : fins[i] = f

RemoveFinalizer(fins, f) == SelectSeq(fins, LAMBDA x : x # f)

AppendIfMissing(fins, f) == IF ~HasFinalizer(fins, f) THEN Append(fins, f) ELSE fins

(* Mutant: the mutator of Create's last Update adds the VM finalizer alone. *)
AddDisksAndVM_OnlyVM(updated, mach) ==
    IF ~HasFinalizer(mach, finalizerVM) THEN Append(updated, finalizerVM) ELSE updated

(* The mutator of Create's last Update: the Disks finalizer is tested on   *)
(* updatedMachine, the VM finalizer on the handler's own machine object.   *)
AddDisksAndVM(updated, mach) ==
    LET withDisks == AppendIfMissing(updated, finalizerDisks)
    IN  IF ~HasFinalizer(mach, finalizerVM) THEN Append(withDisks, finalizerVM) ELSE withDisks

-----------------------------------------------------------------------------
(* Resource names. *)

(* Mutant: one interface name for every Machine. *)
ifaceName_SameForAll(m) == "netiface"

(* Mutant: the name follows the Machine's mutable state, not its Name alone. *)
ifaceName_FromMachineState(m) == m.Name \o "-netiface-" \o ToString(Len(m.Finalizers))

ifaceName(m) == m.Name \o "-netiface"

publicIPName(iface) == iface \o "-pubip"

publicIPv6Name(iface) == iface \o "-pubipv6"

osDiskName(m) == m.Name \o "-osdisk"

-----------------------------------------------------------------------------
(* The backend: create-or-update is keyed by the resource's name, deletion *)
(* by the Machine-UID tag, which is the uid field of a resource.           *)

CreateOrUpdate(set, rec) == {r \in set : r.name # rec.name} \cup {rec}

DeleteByMachineUID(set, uid) == {r \in set : r.uid # uid}

ByMachineUID(set, uid) == {r \in set : r.uid = uid}

PublicIPAddress(name, version, sku, alloc, uid) ==
    [name |-> name, version |-> version, sku |-> sku, alloc |-> alloc, uid |-> uid]

NetworkInterface(name, uid, pubip, pubipv6, family) ==
    [name |-> name, uid |-> uid, publicIP |-> pubip, publicIPv6 |-> pubipv6, family |-> family]

VirtualMachine(name, uid, iface) == [name |-> name, uid |-> uid, iface |-> iface]

Disk(name, uid) == [name |-> name, uid |-> uid]

PublicIPSku(family) == IF family = DualStack THEN "Standard" ELSE "Basic"

-----------------------------------------------------------------------------
(* Bookkeeping shared by the handlers. *)

Call(op, kind, ok) == [op |-> op, kind |-> kind, ok |-> ok]

Returned(op, done, err, step) == [op |-> op, done |-> done, err |-> err, step |-> step]

NoResult == Returned("none", FALSE, "nil", "none")

CreateSteps ==
    {"Create:getConfig", "Create:prepare", "Create:updatePublicIP", "Create:publicIP",
     "Create:publicIPv6", "Create:updateNIC", "Create:NIC", "Create:storageProfile",
     "Create:updateVM", "Create:VM", "Create:refetch"}

CleanupSteps ==
    {"Cleanup:getConfig", "Cleanup:get", "Cleanup:notFound", "Cleanup:deleteVM",
     "Cleanup:updateVM", "Cleanup:deleteDisks", "Cleanup:updateDisks", "Cleanup:deleteNIC",
     "Cleanup:updateNIC", "Cleanup:deletePublicIP", "Cleanup:updatePublicIP"}

Configs == [AssignPublicIP : BOOLEAN, IPFamily : IPFamilies, OSSupported : BOOLEAN]

(* The goroutines reconciling Machines at the same time, and the cache    *)
(* keys (location and VM size) they ask for.                               *)
Goroutines == {"g1", "g2", "g3"}

SKUKeys == {"westeurope-Standard_B2s", "westeurope-Standard_D2s_v3"}

(* A Machine the Driver has just made: no finalizer, nothing returned yet, *)
(* and none of its resources in the backend.                              *)
Fresh ==
    /\ store = <<>>
    /\ machine = [Name |-> MachineName, UID |-> MachineUID, Finalizers |-> <<>>]
    /\ ifaces = {}
    /\ ips = {}
    /\ disks = {}
    /\ result = NoResult
    /\ calls = <<>>
    /\ removed = <<>>
    /\ startFin = <<>>
    /\ vmGone = FALSE
    /\ startBackend = <<{}, {}, {}, {}>>
    /\ migrateTo = ""
    /\ repeat = FALSE
    /\ cacheLock = "free"
    /\ cache = {}
    /\ callers = [g \in Goroutines |-> [pc |-> "idle", key |-> "", last |-> "none"]]
    /\ fetched = [k \in SKUKeys |-> <<>>]
    /\ storeB = <<>>
    /\ driver = "any"

Init ==
    /\ Fresh
    /\ cfg \in Configs
    /\ pc = "idle"
    /\ vms = {}
    /\ iv = "none"
    /\ input = "none"

(* The Driver hands the handler the Machine as the record store holds it. *)
Begin(first) ==
    /\ pc = "idle"
    /\ pc' = first
    /\ machine' = [machine EXCEPT !.Finalizers = store]
    /\ calls' = <<>>
    /\ removed' = <<>>
    /\ startFin' = store
    /\ startBackend' = backend
    /\ result' = NoResult
    /\ UNCHANGED <<store, cfg, backend, iv, aside>>

(* data.Update: re-read the record, apply the mutator, write it back; the  *)
(* handler's machine object then holds the written record.                 *)
Update(ok, fin, newFins) ==
    /\ store' = IF ok THEN newFins ELSE store
    /\ machine' = IF ok THEN [machine EXCEPT !.Finalizers = newFins] ELSE machine
    /\ removed' = IF ok
                  THEN removed \o SelectSeq(store, LAMBDA f : ~HasFinalizer(newFins, f))
                  ELSE removed
    /\ calls' = Append(calls, Call("update", fin, ok))

(* A remote call that does not touch the Machine record. *)
Remote(op, kind, ok) ==
    /\ calls' = Append(calls, Call(op, kind, ok))
    /\ UNCHANGED <<store, machine, removed>>

Return(op, done, err, step) ==
    /\ pc' = "idle"
    /\ result' = Returned(op, done, err, step)

Goto(next) ==
    /\ pc' = next
    /\ UNCHANGED result

(* A step that either moves on or returns its (retriable) error. *)
Proceed(op, ok, step, next) ==
    IF ok THEN Goto(next) ELSE Return(op, FALSE, "error", step)

-----------------------------------------------------------------------------
(* provider.Create *)

StartCreate ==
    /\ Begin("Create:getConfig")
    /\ vmGone' = FALSE
    /\ migrateTo' = ""
    /\ repeat' = FALSE

(* Mutant: the NIC finalizer is persisted before the configuration is resolved. *)
CreateGetConfig_AfterFinalizer ==
    /\ pc = "Create:getConfig"
    /\ \E ok \in BOOLEAN :
          /\ store' = AppendIfMissing(store, finalizerNIC)
          /\ IF ok THEN Goto("Create:prepare")
             ELSE Return("Create", FALSE, "terminal", "getConfig")
    /\ UNCHANGED <<machine, cfg, held, backend, calls, removed, startFin, vmGone>>

(* p.getConfig: a failure is a TerminalError{InvalidConfiguration}. *)
CreateGetConfig ==
    /\ pc = "Create:getConfig"
    /\ \E ok \in BOOLEAN :
          IF ok THEN Goto("Create:prepare")
          ELSE Return("Create", FALSE, "terminal", "getConfig")
    /\ UNCHANGED <<store, machine, cfg, held, backend, calls, removed, startFin, vmGone>>

(* getVMClient and ssh.NewKey, then the first resource Create makes. *)
CreatePrepare ==
    /\ pc = "Create:prepare"
    /\ \E ok \in BOOLEAN :
          Proceed("Create", ok, "prepare",
                  IF cfg.AssignPublicIP THEN "Create:updatePublicIP" ELSE "Create:updateNIC")
    /\ UNCHANGED <<store, machine, cfg, held, backend, calls, removed, startFin, vmGone>>

CreateUpdatePublicIP ==
    /\ pc = "Create:updatePublicIP"
    /\ \E ok \in BOOLEAN :
          /\ Update(ok, finalizerPublicIP, AppendIfMissing(store, finalizerPublicIP))
          /\ Proceed("Create", ok, "updatePublicIP", "Create:publicIP")
    /\ UNCHANGED <<cfg, held, backend, startFin, vmGone>>

(* Mutant: Create goes on after the public IP call failed. *)
CreatePublicIP_IgnoreError ==
    /\ pc = "Create:publicIP"
    /\ \E ok \in BOOLEAN :
          /\ Remote("createOrUpdate", finalizerPublicIP, ok)
          /\ ips' = IF ok
                    THEN CreateOrUpdate(ips, PublicIPAddress(publicIPName(ifaceName(machine)), IPv4,
                                                             PublicIPSku(cfg.IPFamily), "Static", machine.UID))
                    ELSE ips
          /\ Goto(IF cfg.IPFamily = DualStack THEN "Create:publicIPv6" ELSE "Create:updateNIC")
    /\ UNCHANGED <<cfg, held, vms, ifaces, disks, startFin, vmGone>>

CreatePublicIP ==
    /\ pc = "Create:publicIP"
    /\ \E ok \in BOOLEAN :
          /\ Remote("createOrUpdate", finalizerPublicIP, ok)
          /\ ips' = IF ok
                    THEN CreateOrUpdate(ips, PublicIPAddress(publicIPName(ifaceName(machine)), IPv4,
                                                             PublicIPSku(cfg.IPFamily), "Static", machine.UID))
                    ELSE ips
          /\ Proceed("Create", ok, "publicIP",
                     IF cfg.IPFamily = DualStack THEN "Create:publicIPv6" ELSE "Create:updateNIC")
    /\ UNCHANGED <<cfg, held, vms, ifaces, disks, startFin, vmGone>>

CreatePublicIPv6 ==
    /\ pc = "Create:publicIPv6"
    /\ \E ok \in BOOLEAN :
          /\ Remote("createOrUpdate", finalizerPublicIPv6, ok)
          /\ ips' = IF ok
                    THEN CreateOrUpdate(ips, PublicIPAddress(publicIPv6Name(ifaceName(machine)), IPv6,
                                                             PublicIPSku(cfg.IPFamily), "Static", machine.UID))
                    ELSE ips
          /\ Proceed("Create", ok, "publicIPv6", "Create:updateNIC")
    /\ UNCHANGED <<cfg, held, vms, ifaces, disks, startFin, vmGone>>

CreateUpdateNIC ==
    /\ pc = "Create:updateNIC"
    /\ \E ok \in BOOLEAN :
          /\ Update(ok, finalizerNIC, AppendIfMissing(store, finalizerNIC))
          /\ Proceed("Create", ok, "updateNIC", "Create:NIC")
    /\ UNCHANGED <<cfg, held, backend, startFin, vmGone>>

(* publicIP and publicIPv6 are the addresses this invocation created, nil otherwise. *)
CreateNIC ==
    /\ pc = "Create:NIC"
    /\ \E ok \in BOOLEAN :
          /\ Remote("createOrUpdate", finalizerNIC, ok)
          /\ ifaces' = IF ok
                       THEN CreateOrUpdate(ifaces,
                                NetworkInterface(ifaceName(machine), machine.UID,
                                    IF cfg.AssignPublicIP THEN publicIPName(ifaceName(machine)) ELSE "",
                                    IF cfg.AssignPublicIP /\ cfg.IPFamily = DualStack
                                    THEN publicIPv6Name(ifaceName(machine)) ELSE "",
                                    cfg.IPFamily))
                       ELSE ifaces
          /\ Proceed("Create", ok, "NIC", "Create:storageProfile")
    /\ UNCHANGED <<cfg, held, vms, ips, disks, startFin, vmGone>>

(* getStorageProfile fails when no image reference exists for the operating system. *)
CreateStorageProfile ==
    /\ pc = "Create:storageProfile"
    /\ Proceed("Create", cfg.OSSupported, "storageProfile", "Create:updateVM")
    /\ UNCHANGED <<store, machine, cfg, held, backend, calls, removed, startFin, vmGone>>

(* Mutant: the last Update of Create adds the VM finalizer only. *)
CreateUpdateVM_WithoutDisks ==
    /\ pc = "Create:updateVM"
    /\ \E ok \in BOOLEAN :
          /\ Update(ok, finalizerVM, AppendIfMissing(store, finalizerVM))
          /\ Proceed("Create", ok, "updateVM", "Create:VM")
    /\ UNCHANGED <<cfg, held, backend, startFin, vmGone>>

CreateUpdateVM ==
    /\ pc = "Create:updateVM"
    /\ \E ok \in BOOLEAN :
          /\ Update(ok, finalizerVM, AddDisksAndVM(store, machine.Finalizers))
          /\ Proceed("Create", ok, "updateVM", "Create:VM")
    /\ UNCHANGED <<cfg, held, backend, startFin, vmGone>>

(* Mutant: a refused VM creation is reported as a TerminalError. *)
CreateVM_TerminalOnFailure ==
    /\ pc = "Create:VM"
    /\ \E ok \in BOOLEAN, made \in BOOLEAN :
          /\ ok => made
          /\ Remote("createOrUpdate", finalizerVM, ok)
          /\ vms' = IF made
                    THEN CreateOrUpdate(vms, VirtualMachine(machine.Name, machine.UID, ifaceName(machine)))
                    ELSE vms
          /\ disks' = IF made
                      THEN CreateOrUpdate(disks, Disk(osDiskName(machine), machine.UID))
                      ELSE disks
          /\ IF ok THEN Goto("Create:refetch") ELSE Return("Create", FALSE, "terminal", "VM")
    /\ UNCHANGED <<cfg, held, ifaces, ips, startFin, vmGone>>

(* vmClient.CreateOrUpdate, WaitForCompletionRef, Result: the call can be  *)
(* refused, or fail while waiting with the VM made or not.                 *)
CreateVM ==
    /\ pc = "Create:VM"
    /\ \E ok \in BOOLEAN, made \in BOOLEAN :
          /\ ok => made
          /\ Remote("createOrUpdate", finalizerVM, ok)
          /\ vms' = IF made
                    THEN CreateOrUpdate(vms, VirtualMachine(machine.Name, machine.UID, ifaceName(machine)))
                    ELSE vms
          /\ disks' = IF made
                      THEN CreateOrUpdate(disks, Disk(osDiskName(machine), machine.UID))
                      ELSE disks
          /\ Proceed("Create", ok, "VM", "Create:refetch")
    /\ UNCHANGED <<cfg, held, ifaces, ips, startFin, vmGone>>

(* vmClient.Get, getVMIPAddresses, getVMStatus, then the Instance is returned. *)
CreateRefetch ==
    /\ pc = "Create:refetch"
    /\ \E ok \in BOOLEAN :
          IF ok THEN Return("Create", TRUE, "nil", "return")
          ELSE Return("Create", FALSE, "error", "refetch")
    /\ UNCHANGED <<store, machine, cfg, held, backend, calls, removed, startFin, vmGone>>

Create ==
    \/ CreateGetConfig
    \/ CreatePrepare
    \/ CreateUpdatePublicIP
    \/ CreatePublicIP
    \/ CreatePublicIPv6
    \/ CreateUpdateNIC
    \/ CreateNIC
    \/ CreateStorageProfile
    \/ CreateUpdateVM
    \/ CreateVM
    \/ CreateRefetch

-----------------------------------------------------------------------------
(* getVMStatus *)

MaxStatuses == 2

StatusUnknown == "Unknown"
StatusCreating == "Creating"
StatusRunning == "Running"
StatusDeleting == "Deleting"

(* The Code of an InstanceViewStatus: a nil pointer, the empty string, the *)
(* codes getVMStatus knows and codes it does not.                          *)
NilCode == "<nil>"

StatusCodes ==
    {NilCode, "", "ProvisioningState/deleting", "ProvisioningState/succeeded",
     "PowerState/running", "PowerState/starting", "PowerState/deallocated"}

SeqsUpTo(S, n) == UNION {[1..k -> S] : k \in 0..n}

(* iv.Statuses: a nil pointer, or a list of statuses (possibly empty). *)
InstanceViews == [isNil : {TRUE}, statuses : {<<>>}]
                 \cup [isNil : {FALSE}, statuses : SeqsUpTo(StatusCodes, MaxStatuses)]

(* Mutant: a single provisioning status other than deleting counts as running. *)
getVMStatus_ProvisionedIsRunning(view) ==
    IF view.isNil THEN StatusUnknown
    ELSE IF Len(view.statuses) < 2
    THEN IF Len(view.statuses) = 0 THEN "panic"
         ELSE IF view.statuses[1] = "ProvisioningState/deleting" THEN StatusDeleting
         ELSE StatusRunning
    ELSE StatusUnknown

(* The status getVMStatus returns for an instance view; "panic" where the  *)
(* code takes element 0 of an empty status list.                           *)
getVMStatus(view) ==
    IF view.isNil THEN StatusUnknown
    ELSE IF Len(view.statuses) < 2
    THEN IF Len(view.statuses) = 0 THEN "panic"
         ELSE LET code == view.statuses[1]
              IN  CASE code = NilCode -> StatusUnknown
                    [] code = "" -> StatusUnknown
                    [] code = "ProvisioningState/deleting" -> StatusDeleting
                    [] OTHER -> StatusUnknown
    ELSE LET code == view.statuses[2]
         IN  CASE code = NilCode -> StatusUnknown
               [] code = "" -> StatusUnknown
               [] code = "PowerState/running" -> StatusRunning
               [] code = "PowerState/starting" -> StatusCreating
               [] OTHER -> StatusUnknown

(* What getVMStatus returned, and whether the InstanceView call had given  *)
(* it a view.                                                              *)
StatusReturned(op, viewed, err, status) ==
    [op |-> op, done |-> (err = "nil"), err |-> err, step |-> "return", status |-> status,
     viewed |-> viewed]

(* getVMStatus applied to the instance view the backend returned, or the   *)
(* failure of the InstanceView call.                                       *)
GetVMStatus ==
    /\ pc = "getVMStatus"
    /\ pc' = "idle"
    /\ \E ok \in BOOLEAN :
          result' = IF ~ok THEN StatusReturned("getVMStatus", FALSE, "error", StatusUnknown)
                    ELSE IF getVMStatus(iv) = "panic"
                    THEN StatusReturned("getVMStatus", TRUE, "panic", "none")
                    ELSE StatusReturned("getVMStatus", TRUE, "nil", getVMStatus(iv))
    /\ UNCHANGED <<store, machine, cfg, held, backend, calls, removed, startFin, vmGone>>

InitStatus ==
    /\ Fresh
    /\ cfg = [AssignPublicIP |-> FALSE, IPFamily |-> Unspecified, OSSupported |-> TRUE]
    /\ pc = "getVMStatus"
    /\ vms = {}
    /\ iv \in InstanceViews
    /\ input = "none"

SpecStatus == InitStatus /\ [][GetVMStatus]_vars

-----------------------------------------------------------------------------
(* provider.Get and provider.Validate *)

(* Mutant: any VM of the listing is taken for the Machine's. *)
getVMByUID_AnyVM(set, uid) == set

(* getVMByUID: the VMs whose Machine-UID tag equals uid. *)
getVMByUID(set, uid) == ByMachineUID(set, uid)

(* provider.get as Cleanup sees it: the listing can fail; without a VM of  *)
(* that UID the sentinel ErrInstanceNotFound is returned; what is read of  *)
(* the VM after that can fail too.                                         *)
get(listOK, detailsOK) ==
    IF ~listOK THEN "error"
    ELSE IF getVMByUID(vms, machine.UID) = {} THEN "ErrInstanceNotFound"
    ELSE IF ~detailsOK THEN "error"
    ELSE "nil"

(* An operation that answers in one step: what it returns and the reads it *)
(* issued, on the Machine as the Driver hands it over.                     *)
Answer(res, log) ==
    /\ pc = "idle"
    /\ pc' = "idle"
    /\ result' = res
    /\ calls' = log
    /\ machine' = [machine EXCEPT !.Finalizers = store]
    /\ removed' = <<>>
    /\ startFin' = store
    /\ startBackend' = backend
    /\ migrateTo' = ""
    /\ repeat' = FALSE
    /\ UNCHANGED <<cfg, iv, vmGone, aside>>

(* The instance views Get is run on: one of each shape getVMStatus tells   *)
(* apart.                                                                  *)
GetViews ==
    {[isNil |-> TRUE, statuses |-> <<>>],
     [isNil |-> FALSE, statuses |-> <<>>],
     [isNil |-> FALSE, statuses |-> <<"ProvisioningState/deleting">>],
     [isNil |-> FALSE, statuses |-> <<"ProvisioningState/succeeded", "PowerState/running">>],
     [isNil |-> FALSE, statuses |-> <<"ProvisioningState/succeeded", "PowerState/starting">>],
     [isNil |-> FALSE, statuses |-> <<"ProvisioningState/succeeded", "PowerState/deallocated">>]}

(* getVMIPAddresses: an error for a VM without network interfaces data;    *)
(* otherwise the addresses getNICIPAddresses returned and no error, the    *)
(* test after that call being on the interfaces data, not on its err.      *)
getVMIPAddresses(vm, nicOK) ==
    IF vm.iface = "" THEN [err |-> "error", addresses |-> "none"]
    ELSE [err |-> "nil", addresses |-> IF nicOK THEN "complete" ELSE "missing"]

InstanceReturned(err, status, addresses) ==
    [op |-> "Get", done |-> (err = "nil"), err |-> err, step |-> "return",
     status |-> status, addresses |-> addresses]

(* What provider.Get returns: the error of get and, without one, the       *)
(* Instance with the addresses read and the status getVMStatus maps the    *)
(* instance view to.                                                       *)
GetResult(cfgOK, listOK, ipOK, ivOK, view) ==
    IF ~cfgOK THEN InstanceReturned("error", "none", "none")
    ELSE IF get(listOK, TRUE) # "nil" THEN InstanceReturned(get(listOK, TRUE), "none", "none")
    ELSE LET vm == CHOOSE v \in getVMByUID(vms, machine.UID) : TRUE
             ip == getVMIPAddresses(vm, ipOK)
         IN  IF ip.err # "nil" \/ ~ivOK THEN InstanceReturned("error", "none", "none")
             ELSE IF getVMStatus(view) = "panic" THEN InstanceReturned("panic", "none", "none")
             ELSE InstanceReturned("nil", getVMStatus(view), ip.addresses)

(* The reads Get issued: the listing, then for the VM found the addresses  *)
(* of its interface and its instance view.                                 *)
GetReads(cfgOK, listOK, ipOK, ivOK) ==
    IF ~cfgOK THEN <<>>
    ELSE IF get(listOK, TRUE) # "nil" THEN <<Call("read", "ListAll", listOK)>>
    ELSE <<Call("read", "ListAll", listOK), Call("read", "getNICIPAddresses", ipOK),
           Call("read", "InstanceView", ivOK)>>

(* Mutant: Get drops the VM finalizer when it finds no instance. *)
Get_DropFinalizerOnNotFound ==
    \E cfgOK, listOK, ipOK, ivOK \in BOOLEAN, view \in GetViews :
        /\ Answer(GetResult(cfgOK, listOK, ipOK, ivOK, view), GetReads(cfgOK, listOK, ipOK, ivOK))
        /\ store' = IF GetResult(cfgOK, listOK, ipOK, ivOK, view).err = "ErrInstanceNotFound"
                    THEN RemoveFinalizer(store, finalizerVM) ELSE store
        /\ UNCHANGED backend

Get ==
    \E cfgOK, listOK, ipOK, ivOK \in BOOLEAN, view \in GetViews :
        /\ Answer(GetResult(cfgOK, listOK, ipOK, ivOK, view), GetReads(cfgOK, listOK, ipOK, ivOK))
        /\ UNCHANGED <<store, backend>>

(* The fields Validate requires, in the order it tests them. *)
RequiredFields ==
    <<"subscriptionID", "tenantID", "clientID", "clientSecret",
      "resourceGroup", "vmSize", "vnetName", "subnetName">>

(* The reads Validate issues against the backend, in order. *)
ValidateReads ==
    <<"getVMClient", "ListAll", "getVirtualNetwork", "getSubnet", "validateDiskSKUs">>

Range(seq) == {seq[i] : i \in DOMAIN seq}

IndexOf(seq, x) == CHOOSE i \in DOMAIN seq : seq[i] = x

(* What Validate returns. missing is the first required field that is empty *)
(* and failed the first read that fails ("none" for neither).               *)
ValidateResult(cfgOK, missing, failed) ==
    IF ~cfgOK THEN Returned("Validate", FALSE, "error", "getConfig")
    ELSE IF missing # "none" THEN Returned("Validate", FALSE, "error", missing)
    ELSE IF cfg.IPFamily = IPv6 THEN Returned("Validate", FALSE, "error", "ipFamily")
    ELSE IF cfg.IPFamily \notin {Unspecified, IPv4, DualStack}
    THEN Returned("Validate", FALSE, "error", "ipFamily")
    ELSE IF failed # "none" THEN Returned("Validate", FALSE, "error", failed)
    ELSE IF ~cfg.OSSupported THEN Returned("Validate", FALSE, "error", "getOSImageReference")
    ELSE Returned("Validate", TRUE, "nil", "return")

(* The reads issued up to the first that fails. *)
ReadsUpTo(failed) ==
    LET n == IF failed = "none" THEN Len(ValidateReads) ELSE IndexOf(ValidateReads, failed)
    IN  [i \in 1..n |-> Call("read", ValidateReads[i], ValidateReads[i] # failed)]

(* Mutant: the backend is read before the configuration is tested. *)
ValidateLog_ReadsFirst(cfgOK, missing, failed) ==
    IF ~cfgOK THEN <<>> ELSE ReadsUpTo(failed)

(* The reads Validate issued: none before the local tests pass, then each  *)
(* one up to the first that fails.                                         *)
ValidateLog(cfgOK, missing, failed) ==
    IF ~cfgOK \/ missing # "none" \/ cfg.IPFamily \notin {Unspecified, IPv4, DualStack} THEN <<>>
    ELSE ReadsUpTo(failed)

Validate ==
    \E cfgOK \in BOOLEAN, missing \in Range(RequiredFields) \cup {"none"},
       failed \in Range(ValidateReads) \cup {"none"} :
        /\ Answer(ValidateResult(cfgOK, missing, failed), ValidateLog(cfgOK, missing, failed))
        /\ UNCHANGED <<store, backend>>

-----------------------------------------------------------------------------
(* provider.Cleanup *)

StartCleanup ==
    /\ Begin("Cleanup:getConfig")
    /\ migrateTo' = ""
    /\ repeat' = FALSE
    /\ UNCHANGED vmGone

CleanupGetConfig ==
    /\ pc = "Cleanup:getConfig"
    /\ \E ok \in BOOLEAN : Proceed("Cleanup", ok, "getConfig", "Cleanup:get")
    /\ UNCHANGED <<store, machine, cfg, held, backend, calls, removed, startFin, vmGone>>

(* Mutant: the ErrInstanceNotFound test is inverted, so the sentinel falls *)
(* through to the VM deletion.                                            *)
CleanupGet_DeleteOnNotFound ==
    /\ pc = "Cleanup:get"
    /\ \E listOK \in BOOLEAN, detailsOK \in BOOLEAN :
          LET err == get(listOK, detailsOK)
          IN  /\ calls' = Append(calls, Call("get", err, err # "error"))
              /\ IF err = "error" THEN Return("Cleanup", FALSE, "error", "get")
                 ELSE Goto("Cleanup:deleteVM")
    /\ UNCHANGED <<store, machine, cfg, held, backend, removed, startFin, vmGone>>

(* Mutant: without a VM Cleanup reports that it is not done yet. *)
CleanupGet_NotDoneOnNotFound ==
    /\ pc = "Cleanup:get"
    /\ \E listOK \in BOOLEAN, detailsOK \in BOOLEAN :
          LET err == get(listOK, detailsOK)
          IN  /\ calls' = Append(calls, Call("get", err, err # "error"))
              /\ IF err = "ErrInstanceNotFound" THEN Return("Cleanup", FALSE, "nil", "get")
                 ELSE Proceed("Cleanup", err = "nil", "get", "Cleanup:deleteVM")
    /\ UNCHANGED <<store, machine, cfg, held, backend, removed, startFin, vmGone>>

CleanupGet ==
    /\ pc = "Cleanup:get"
    /\ \E listOK \in BOOLEAN, detailsOK \in BOOLEAN :
          LET err == get(listOK, detailsOK)
          IN  /\ calls' = Append(calls, Call("get", err, err # "error"))
              /\ IF err = "ErrInstanceNotFound" THEN Goto("Cleanup:notFound")
                 ELSE Proceed("Cleanup", err = "nil", "get", "Cleanup:deleteVM")
    /\ UNCHANGED <<store, machine, cfg, held, backend, removed, startFin, vmGone>>

(* util.RemoveFinalizerOnInstanceNotFound(finalizerVM, machine, data) *)
RemoveFinalizerOnInstanceNotFound ==
    /\ pc = "Cleanup:notFound"
    /\ IF ~HasFinalizer(machine.Finalizers, finalizerVM)
       THEN /\ Return("Cleanup", TRUE, "nil", "notFound")
            /\ UNCHANGED <<store, machine, removed, calls>>
       ELSE \E ok \in BOOLEAN :
               /\ Update(ok, finalizerVM, RemoveFinalizer(store, finalizerVM))
               /\ IF ok THEN Return("Cleanup", TRUE, "nil", "notFound")
                  ELSE Return("Cleanup", FALSE, "error", "notFound")
    /\ UNCHANGED <<cfg, held, backend, startFin, vmGone>>

CleanupDeleteVM ==
    /\ pc = "Cleanup:deleteVM"
    /\ \E ok \in BOOLEAN :
          /\ Remote("delete", finalizerVM, ok)
          /\ vms' = IF ok THEN DeleteByMachineUID(vms, machine.UID) ELSE vms
          /\ Proceed("Cleanup", ok, "deleteVM", "Cleanup:updateVM")
    /\ UNCHANGED <<cfg, held, ifaces, ips, disks, startFin, vmGone>>

CleanupUpdateVM ==
    /\ pc = "Cleanup:updateVM"
    /\ \E ok \in BOOLEAN :
          /\ Update(ok, finalizerVM, RemoveFinalizer(store, finalizerVM))
          /\ Proceed("Cleanup", ok, "updateVM", "Cleanup:deleteDisks")
          /\ vmGone' = (vmGone \/ ok)
    /\ UNCHANGED <<cfg, held, backend, startFin>>

(* Mutant: the error of the disk deletion is dropped. *)
CleanupDeleteDisks_IgnoreError ==
    /\ pc = "Cleanup:deleteDisks"
    /\ \E ok \in BOOLEAN :
          /\ Remote("delete", finalizerDisks, ok)
          /\ disks' = IF ok THEN DeleteByMachineUID(disks, machine.UID) ELSE disks
          /\ Goto("Cleanup:updateDisks")
    /\ UNCHANGED <<cfg, held, vms, ifaces, ips, startFin, vmGone>>

CleanupDeleteDisks ==
    /\ pc = "Cleanup:deleteDisks"
    /\ \E ok \in BOOLEAN :
          /\ Remote("delete", finalizerDisks, ok)
          /\ disks' = IF ok THEN DeleteByMachineUID(disks, machine.UID) ELSE disks
          /\ Proceed("Cleanup", ok, "deleteDisks", "Cleanup:updateDisks")
    /\ UNCHANGED <<cfg, held, vms, ifaces, ips, startFin, vmGone>>

CleanupUpdateDisks ==
    /\ pc = "Cleanup:updateDisks"
    /\ \E ok \in BOOLEAN :
          /\ Update(ok, finalizerDisks, RemoveFinalizer(store, finalizerDisks))
          /\ Proceed("Cleanup", ok, "updateDisks", "Cleanup:deleteNIC")
    /\ UNCHANGED <<cfg, held, backend, startFin, vmGone>>

(* Mutant: the NIC finalizer is removed whether or not the deletion succeeded. *)
CleanupDeleteNIC_IgnoreError ==
    /\ pc = "Cleanup:deleteNIC"
    /\ \E ok \in BOOLEAN :
          /\ Remote("delete", finalizerNIC, ok)
          /\ ifaces' = IF ok THEN DeleteByMachineUID(ifaces, machine.UID) ELSE ifaces
          /\ Goto("Cleanup:updateNIC")
    /\ UNCHANGED <<cfg, held, vms, ips, disks, startFin, vmGone>>

CleanupDeleteNIC ==
    /\ pc = "Cleanup:deleteNIC"
    /\ \E ok \in BOOLEAN :
          /\ Remote("delete", finalizerNIC, ok)
          /\ ifaces' = IF ok THEN DeleteByMachineUID(ifaces, machine.UID) ELSE ifaces
          /\ Proceed("Cleanup", ok, "deleteNIC", "Cleanup:updateNIC")
    /\ UNCHANGED <<cfg, held, vms, ips, disks, startFin, vmGone>>

CleanupUpdateNIC ==
    /\ pc = "Cleanup:updateNIC"
    /\ \E ok \in BOOLEAN :
          /\ Update(ok, finalizerNIC, RemoveFinalizer(store, finalizerNIC))
          /\ Proceed("Cleanup", ok, "updateNIC", "Cleanup:deletePublicIP")
    /\ UNCHANGED <<cfg, held, backend, startFin, vmGone>>

CleanupDeletePublicIP ==
    /\ pc = "Cleanup:deletePublicIP"
    /\ \E ok \in BOOLEAN :
          /\ Remote("delete", finalizerPublicIP, ok)
          /\ ips' = IF ok THEN DeleteByMachineUID(ips, machine.UID) ELSE ips
          /\ Proceed("Cleanup", ok, "deletePublicIP", "Cleanup:updatePublicIP")
    /\ UNCHANGED <<cfg, held, vms, ifaces, disks, startFin, vmGone>>

CleanupUpdatePublicIP ==
    /\ pc = "Cleanup:updatePublicIP"
    /\ \E ok \in BOOLEAN :
          /\ Update(ok, finalizerPublicIP, RemoveFinalizer(store, finalizerPublicIP))
          /\ IF ok THEN Return("Cleanup", TRUE, "nil", "return")
             ELSE Return("Cleanup", FALSE, "error", "updatePublicIP")
    /\ UNCHANGED <<cfg, held, backend, startFin, vmGone>>

Cleanup ==
    \/ CleanupGetConfig
    \/ CleanupGet
    \/ RemoveFinalizerOnInstanceNotFound
    \/ CleanupDeleteVM
    \/ CleanupUpdateVM
    \/ CleanupDeleteDisks
    \/ CleanupUpdateDisks
    \/ CleanupDeleteNIC
    \/ CleanupUpdateNIC
    \/ CleanupDeletePublicIP
    \/ CleanupUpdatePublicIP

-----------------------------------------------------------------------------
(* provider.MigrateUID *)

UIDs == {MachineUID, "uid-2"}

MigrateSteps ==
    {"MigrateUID:getConfig", "MigrateUID:getVMClient", "MigrateUID:publicIPv6",
     "MigrateUID:publicIP", "MigrateUID:NIC", "MigrateUID:disks", "MigrateUID:VM"}

(* The sku MigrateUID passes for the public addresses. *)
MigrateSku(m) ==
    IF HasFinalizer(m.Finalizers, finalizerPublicIPv6) THEN "Standard" ELSE "Basic"

(* The records of set tagged uid, tagged newUID instead. *)
Retag(set, uid, newUID) ==
    {IF r.uid = uid THEN [r EXCEPT !.uid = newUID] ELSE r : r \in set}

(* repeat: this call is made with the new UID of the successful call just  *)
(* before it.                                                              *)
StartMigrateUID ==
    /\ \E newUID \in UIDs \ {machine.UID} :
          /\ migrateTo' = newUID
          /\ repeat' = (result.op = "MigrateUID" /\ result.done /\ migrateTo = newUID)
    /\ Begin("MigrateUID:getConfig")
    /\ vmGone' = FALSE

MigrateGetConfig ==
    /\ pc = "MigrateUID:getConfig"
    /\ \E ok \in BOOLEAN :
          IF ok THEN Goto("MigrateUID:getVMClient")
          ELSE Return("MigrateUID", FALSE, "terminal", "getConfig")
    /\ UNCHANGED <<store, machine, cfg, held, backend, calls, removed, startFin, vmGone>>

MigrateGetVMClient ==
    /\ pc = "MigrateUID:getVMClient"
    /\ \E ok \in BOOLEAN : Proceed("MigrateUID", ok, "getVMClient", "MigrateUID:publicIPv6")
    /\ UNCHANGED <<store, machine, cfg, held, backend, calls, removed, startFin, vmGone>>

MigratePublicIPv6 ==
    /\ pc = "MigrateUID:publicIPv6"
    /\ IF HasFinalizer(machine.Finalizers, finalizerPublicIPv6)
       THEN \E ok \in BOOLEAN :
               /\ Remote("migrate", finalizerPublicIPv6, ok)
               /\ ips' = IF ok
                         THEN CreateOrUpdate(ips, PublicIPAddress(publicIPv6Name(ifaceName(machine)), IPv6,
                                                                  MigrateSku(machine), "Dynamic", migrateTo))
                         ELSE ips
               /\ Proceed("MigrateUID", ok, "publicIPv6", "MigrateUID:publicIP")
       ELSE /\ Goto("MigrateUID:publicIP")
            /\ UNCHANGED <<store, machine, removed, calls, ips>>
    /\ UNCHANGED <<cfg, held, vms, ifaces, disks, startFin, vmGone>>

MigratePublicIP ==
    /\ pc = "MigrateUID:publicIP"
    /\ IF HasFinalizer(machine.Finalizers, finalizerPublicIP)
       THEN \E ok \in BOOLEAN :
               /\ Remote("migrate", finalizerPublicIP, ok)
               /\ ips' = IF ok
                         THEN CreateOrUpdate(ips, PublicIPAddress(publicIPName(ifaceName(machine)), IPv4,
                                                                  MigrateSku(machine), "Static", migrateTo))
                         ELSE ips
               /\ Proceed("MigrateUID", ok, "publicIP", "MigrateUID:NIC")
       ELSE /\ Goto("MigrateUID:NIC")
            /\ UNCHANGED <<store, machine, removed, calls, ips>>
    /\ UNCHANGED <<cfg, held, vms, ifaces, disks, startFin, vmGone>>

(* Mutant: a failure to re-tag the network interface is passed over. *)
MigrateNIC_IgnoreError ==
    /\ pc = "MigrateUID:NIC"
    /\ IF HasFinalizer(machine.Finalizers, finalizerNIC)
       THEN \E ok \in BOOLEAN :
               /\ Remote("migrate", finalizerNIC, ok)
               /\ ifaces' = IF ok
                            THEN CreateOrUpdate(ifaces, NetworkInterface(ifaceName(machine), migrateTo,
                                                                         "", "", Unspecified))
                            ELSE ifaces
               /\ Goto("MigrateUID:disks")
       ELSE /\ Goto("MigrateUID:disks")
            /\ UNCHANGED <<store, machine, removed, calls, ifaces>>
    /\ UNCHANGED <<cfg, held, vms, ips, disks, startFin, vmGone>>

(* publicIP and publicIPv6 are nil here: the results of the two calls      *)
(* above are dropped.                                                      *)
MigrateNIC ==
    /\ pc = "MigrateUID:NIC"
    /\ IF HasFinalizer(machine.Finalizers, finalizerNIC)
       THEN \E ok \in BOOLEAN :
               /\ Remote("migrate", finalizerNIC, ok)
               /\ ifaces' = IF ok
                            THEN CreateOrUpdate(ifaces, NetworkInterface(ifaceName(machine), migrateTo,
                                                                         "", "", Unspecified))
                            ELSE ifaces
               /\ Proceed("MigrateUID", ok, "NIC", "MigrateUID:disks")
       ELSE /\ Goto("MigrateUID:disks")
            /\ UNCHANGED <<store, machine, removed, calls, ifaces>>
    /\ UNCHANGED <<cfg, held, vms, ips, disks, startFin, vmGone>>

(* getDisksByMachineUID(machine.UID), then each disk found is written back *)
(* with the new tag; the write can be refused, or fail while waiting with  *)
(* the tag written or not.                                                 *)
MigrateDisks ==
    /\ pc = "MigrateUID:disks"
    /\ IF HasFinalizer(machine.Finalizers, finalizerDisks)
       THEN \E ok \in BOOLEAN, made \in BOOLEAN :
               /\ ok => made
               /\ Remote("migrate", finalizerDisks, ok)
               /\ disks' = IF made THEN Retag(disks, machine.UID, migrateTo) ELSE disks
               /\ Proceed("MigrateUID", ok, "disks", "MigrateUID:VM")
       ELSE /\ Goto("MigrateUID:VM")
            /\ UNCHANGED <<store, machine, removed, calls, disks>>
    /\ UNCHANGED <<cfg, held, vms, ifaces, ips, startFin, vmGone>>

(* vmSpec holds the location and the tags only. *)
MigrateVM ==
    /\ pc = "MigrateUID:VM"
    /\ \E ok \in BOOLEAN, made \in BOOLEAN :
          /\ ok => made
          /\ Remote("migrate", finalizerVM, ok)
          /\ vms' = IF made
                    THEN CreateOrUpdate(vms, VirtualMachine(machine.Name, migrateTo, ""))
                    ELSE vms
          /\ IF ok THEN Return("MigrateUID", TRUE, "nil", "return")
             ELSE Return("MigrateUID", FALSE, "error", "VM")
    /\ UNCHANGED <<cfg, held, ifaces, ips, disks, startFin, vmGone>>

MigrateUID ==
    \/ MigrateGetConfig
    \/ MigrateGetVMClient
    \/ MigratePublicIPv6
    \/ MigratePublicIP
    \/ MigrateNIC
    \/ MigrateDisks
    \/ MigrateVM

(* After a successful MigrateUID the Driver goes on with the Machine under *)
(* its new UID.                                                            *)
AdoptUID ==
    /\ pc = "idle"
    /\ result.op = "MigrateUID"
    /\ result.done
    /\ machine.UID # migrateTo
    /\ machine' = [machine EXCEPT !.UID = migrateTo]
    /\ UNCHANGED <<store, cfg, held, pc, backend, result, calls, removed, startFin, vmGone>>

-----------------------------------------------------------------------------
(* The process can stop in the middle of a handler: nothing is returned    *)
(* and the Driver starts over from the persisted record.                   *)
Crash ==
    /\ pc # "idle"
    /\ pc' = "idle"
    /\ result' = Returned(IF pc \in CreateSteps THEN "Create"
                           ELSE IF pc \in MigrateSteps THEN "MigrateUID"
                           ELSE "Cleanup", FALSE, "crash", "crash")
    /\ UNCHANGED <<store, machine, cfg, held, backend, calls, removed, startFin, vmGone>>

Next ==
    \/ StartCreate
    \/ Create
    \/ StartCleanup
    \/ Cleanup
    \/ Crash

Spec == Init /\ [][Next]_vars

(* The Driver under retry: from some idle state on it invokes only Create  *)
(* (the Machine is to exist) or only Cleanup (the Machine is being         *)
(* deleted), again after every result that is not the final one.           *)
Settle(handler) ==
    /\ pc = "idle"
    /\ driver = "any"
    /\ driver' = handler
    /\ result' = NoResult
    /\ UNCHANGED <<store, machine, cfg, pc, backend, calls, removed, startFin, vmGone,
                   startBackend, migrateTo, repeat, iv, shared, storeB, input>>

(* The invocation has returned what ends the Driver's retries. *)
Converged == pc = "idle" /\ result.op = driver /\ result.done

RetryCreate ==
    /\ driver = "Create"
    /\ \/ ~Converged /\ StartCreate
       \/ Create
       \/ Crash

RetryCleanup ==
    /\ driver = "Cleanup"
    /\ \/ ~Converged /\ StartCleanup
       \/ Cleanup
       \/ Crash

NextRetry ==
    \/ driver = "any" /\ Next
    \/ Settle("Create")
    \/ Settle("Cleanup")
    \/ RetryCreate
    \/ RetryCleanup

(* A step that ends the running invocation without its result: an error   *)
(* returned or the process stopped.                                        *)
Fails == pc # "idle" /\ pc' = "idle" /\ result'.err # "nil"

(* The Driver keeps invoking and the handler keeps running, and from some  *)
(* point on no call and no Update fails any more.                          *)
FairRetry ==
    /\ WF_vars(RetryCreate)
    /\ WF_vars(RetryCleanup)
    /\ <>[][~Fails]_vars

SpecRetry == Init /\ [][NextRetry]_vars /\ FairRetry

(* The longest finalizer list another writer adds to. *)
MaxFinalizers == 4

(* Another writer persists a lifecycle finalizer on the record while       *)
(* Create runs: the machine object Create holds is then older than the     *)
(* record its next Update hands to the mutator.                            *)
RecordChanged ==
    /\ pc \in CreateSteps
    /\ Len(store) < MaxFinalizers
    /\ \E f \in {finalizerPublicIP, finalizerNIC, finalizerDisks, finalizerVM} :
          store' = AppendIfMissing(store, f)
    /\ UNCHANGED <<machine, cfg, pc, backend, result, calls, removed, startFin, vmGone, held>>

(* Create and Cleanup on a record that has a second writer. *)
NextStale ==
    \/ Next
    \/ RecordChanged

SpecStale == Init /\ [][NextStale]_vars

(* VMs of the resource group that are not this Machine's: one of another   *)
(* Machine and one without a Machine-UID tag.                              *)
ForeignVMs ==
    {VirtualMachine("other", "uid-other", "other-netiface"),
     VirtualMachine("untagged", "", "")}

(* The configurations Validate is handed, an unknown IP family among them. *)
ProviderConfigs ==
    [AssignPublicIP : BOOLEAN, IPFamily : IPFamilies \cup {UnknownFamily}, OSSupported : BOOLEAN]

InitProvider ==
    /\ Fresh
    /\ cfg \in ProviderConfigs
    /\ pc = "idle"
    /\ vms \in SUBSET ForeignVMs
    /\ iv = "none"
    /\ input = "none"

(* The VM size and the location of the Machine's configuration. *)
VMSize == "Standard_B2s"
Location == "westeurope"

(* A map[string]string: a nil map or a set of key-value entries. *)
Labels(isNil, entries) == [isNil |-> isNil, entries |-> entries]

LabelsReturned(err, labels) ==
    [op |-> "MachineMetricsLabels", done |-> (err = "nil"), err |-> err, step |-> "return",
     labels |-> labels]

(* Mutant: no label map is returned when the configuration cannot be read. *)
MachineMetricsLabels_NilOnFailure ==
    \E cfgOK \in BOOLEAN :
        /\ Answer(IF cfgOK
                  THEN LabelsReturned("nil", Labels(FALSE, {<<"size", VMSize>>, <<"location", Location>>}))
                  ELSE LabelsReturned("error", Labels(TRUE, {})),
                  <<>>)
        /\ UNCHANGED <<store, backend>>

(* provider.MachineMetricsLabels: the map is made first, filled when       *)
(* getConfig succeeds, and returned with getConfig's error.                *)
MachineMetricsLabels ==
    \E cfgOK \in BOOLEAN :
        /\ Answer(IF cfgOK
                  THEN LabelsReturned("nil", Labels(FALSE, {<<"size", VMSize>>, <<"location", Location>>}))
                  ELSE LabelsReturned("error", Labels(FALSE, {})),
                  <<>>)
        /\ UNCHANGED <<store, backend>>

(* Create and Cleanup with the read-only operations between them. *)
NextProvider ==
    \/ Next
    \/ Get
    \/ Validate
    \/ MachineMetricsLabels

SpecProvider == InitProvider /\ [][NextProvider]_vars

(* Create and Cleanup with MigrateUID between them. *)
NextMigrate ==
    \/ Next
    \/ StartMigrateUID
    \/ MigrateUID
    \/ AdoptUID

SpecMigrate == Init /\ [][NextMigrate]_vars

-----------------------------------------------------------------------------
(* A second Machine reconciled by another goroutine against the same       *)
(* backend: what its Create and its Cleanup do, each in one step.          *)

MachineB == [Name |-> "m2", UID |-> "uid-b", Finalizers |-> storeB]

thisMachine ==
    <<store, machine, cfg, pc, result, calls, removed, startFin, vmGone,
      startBackend, migrateTo, repeat, iv, shared, input, driver>>

(* Create of the second Machine up to its network interface. *)
OtherCreateNIC ==
    /\ ~HasFinalizer(storeB, finalizerNIC)
    /\ storeB' = <<finalizerPublicIP, finalizerNIC>>
    /\ ips' = CreateOrUpdate(ips, PublicIPAddress(publicIPName(ifaceName(MachineB)), IPv4,
                                                  PublicIPSku(IPv4), "Static", MachineB.UID))
    /\ ifaces' = CreateOrUpdate(ifaces, NetworkInterface(ifaceName(MachineB), MachineB.UID,
                                                         publicIPName(ifaceName(MachineB)), "", IPv4))
    /\ UNCHANGED <<vms, disks, thisMachine>>

(* Create of the second Machine from its network interface on. *)
OtherCreateVM ==
    /\ HasFinalizer(storeB, finalizerNIC)
    /\ ~HasFinalizer(storeB, finalizerVM)
    /\ storeB' = AddDisksAndVM(storeB, storeB)
    /\ vms' = CreateOrUpdate(vms, VirtualMachine(MachineB.Name, MachineB.UID, ifaceName(MachineB)))
    /\ disks' = CreateOrUpdate(disks, Disk(osDiskName(MachineB), MachineB.UID))
    /\ UNCHANGED <<ifaces, ips, thisMachine>>

(* Cleanup of the second Machine. *)
OtherCleanup ==
    /\ storeB # <<>>
    /\ storeB' = <<>>
    /\ vms' = DeleteByMachineUID(vms, MachineB.UID)
    /\ disks' = DeleteByMachineUID(disks, MachineB.UID)
    /\ ifaces' = DeleteByMachineUID(ifaces, MachineB.UID)
    /\ ips' = DeleteByMachineUID(ips, MachineB.UID)
    /\ UNCHANGED thisMachine

OtherMachine ==
    \/ OtherCreateNIC
    \/ OtherCreateVM
    \/ OtherCleanup

(* A configuration with which Create makes every kind of resource. *)
InitTwo ==
    /\ Init
    /\ cfg = [AssignPublicIP |-> TRUE, IPFamily |-> DualStack, OSSupported |-> TRUE]

(* The handlers of this Machine. *)
ThisMachine ==
    \/ Next
    \/ StartMigrateUID
    \/ MigrateUID

NextTwo ==
    \/ ThisMachine
    \/ OtherMachine

SpecTwo == InitTwo /\ [][NextTwo]_vars

-----------------------------------------------------------------------------
(* getConfig: resolution of one field of the raw configuration *)

envClientID == "AZURE_CLIENT_ID"
envClientSecret == "AZURE_CLIENT_SECRET"
envTenantID == "AZURE_TENANT_ID"
envSubscriptionID == "AZURE_SUBSCRIPTION_ID"

EnvNames == {envClientID, envClientSecret, envTenantID, envSubscriptionID}

(* The fields getConfig resolves with an environment fallback, and one     *)
(* (resourceGroup) of those it resolves without.                           *)
EnvFields == {"subscriptionID", "tenantID", "clientID", "clientSecret"}

ConfigFields == EnvFields \cup {"resourceGroup"}

EnvOf(field) ==
    CASE field = "subscriptionID" -> envSubscriptionID
      [] field = "tenantID" -> envTenantID
      [] field = "clientID" -> envClientID
      [] OTHER -> envClientSecret

(* A ConfigVarString: a literal (possibly empty) and a secret reference    *)
(* that is absent, or whose lookup gives a value, an empty value or fails. *)
ConfigVarStrings == [literal : {"", "literal"}, secret : {"none", "value", "empty", "error"}]

Resolved(err, val) == [err |-> err, val |-> val]

(* The literal if present, otherwise the secret looked up. *)
GetConfigVarStringValue(v) ==
    IF v.literal # "" THEN Resolved("nil", v.literal)
    ELSE CASE v.secret = "value" -> Resolved("nil", "secret-value")
           [] v.secret = "error" -> Resolved("error", "")
           [] OTHER -> Resolved("nil", "")

(* The value of the field if it resolves to one, otherwise the environment *)
(* variable; a failed lookup is returned or passed over for the variable.  *)
GetConfigVarStringValueOrEnv(v, envVarName, env, passOver) ==
    LET r == GetConfigVarStringValue(v)
    IN  IF r.err = "nil" /\ r.val # "" THEN r
        ELSE IF r.err # "nil" /\ ~passOver THEN r
        ELSE Resolved("nil", IF envVarName \in env THEN "$" \o envVarName ELSE "")

(* Mutant: the environment variable is preferred when it is set. *)
ResolveField_EnvFirst(field, v, env, passOver) ==
    IF field \in EnvFields /\ EnvOf(field) \in env
    THEN Resolved("nil", "$" \o EnvOf(field))
    ELSE GetConfigVarStringValue(v)

(* getConfig on one field: with the field's own environment variable for   *)
(* the four credentials, without a fallback otherwise.                     *)
ResolveField(field, v, env, passOver) ==
    IF field \in EnvFields
    THEN GetConfigVarStringValueOrEnv(v, EnvOf(field), env, passOver)
    ELSE GetConfigVarStringValue(v)

ConfigInputs == [field : ConfigFields, value : ConfigVarStrings, env : SUBSET EnvNames]

ResolveConfig ==
    /\ pc = "getConfig"
    /\ pc' = "idle"
    /\ \E passOver \in BOOLEAN :
          LET r == ResolveField(input.field, input.value, input.env, passOver)
          IN  result' = [op |-> "getConfig", done |-> (r.err = "nil"), err |-> r.err,
                         step |-> input.field, value |-> r.val]
    /\ UNCHANGED <<store, machine, cfg, held, backend, calls, removed, startFin, vmGone>>

InitConfig ==
    /\ Fresh
    /\ cfg = [AssignPublicIP |-> FALSE, IPFamily |-> Unspecified, OSSupported |-> TRUE]
    /\ pc = "getConfig"
    /\ vms = {}
    /\ iv = "none"
    /\ input \in ConfigInputs

SpecConfig == InitConfig /\ [][ResolveConfig]_vars

-----------------------------------------------------------------------------
(* validateDiskSKUs and supportsDiskSKU *)

CapabilityPremiumIO == "PremiumIO"
CapabilityUltraSSD == "UltraSSDAvailable"

StandardLRS == "Standard_LRS"
StandardSSDLRS == "StandardSSD_LRS"
PremiumLRS == "Premium_LRS"
UltraSSDLRS == "UltraSSD_LRS"

osDiskSKUs == {StandardLRS, StandardSSDLRS, PremiumLRS}

dataDiskSKUs == {StandardLRS, StandardSSDLRS, PremiumLRS, UltraSSDLRS}

(* What a disk SKU of the configuration can be: unset, one of the four     *)
(* types, or another string.                                               *)
DiskSKUChoices == {"nil", "Premium_ZRS"} \cup dataDiskSKUs

ZoneNames == {"1", "2"}

(* ZoneDetails of a VM SKU: the zones an entry names and whether it holds  *)
(* the capability UltraSSDAvailable with value True.                       *)
ZoneDetail == [Name : {{z} : z \in ZoneNames}, ultra : BOOLEAN]

(* A compute.ResourceSku as supportsDiskSKU reads it: Name and Capabilities *)
(* present or not, the capabilities with value True, whether               *)
(* LocationInfo[0] lists zones, and its ZoneDetails (a nil pointer or a    *)
(* list).                                                                  *)
VMSKUs ==
    [valid : {FALSE}, caps : {{}}, zonesListed : {FALSE}, detailsNil : {TRUE}, details : {{}}]
    \cup [valid : {TRUE}, caps : SUBSET {CapabilityPremiumIO, CapabilityUltraSSD},
          zonesListed : {FALSE}, detailsNil : {TRUE}, details : {{}}]
    \cup [valid : {TRUE}, caps : SUBSET {CapabilityPremiumIO, CapabilityUltraSSD},
          zonesListed : {TRUE}, detailsNil : {TRUE}, details : {{}}]
    \cup [valid : {TRUE}, caps : SUBSET {CapabilityPremiumIO, CapabilityUltraSSD},
          zonesListed : {TRUE}, detailsNil : {FALSE}, details : SUBSET ZoneDetail]

supportsDiskSKU(vmSKU, diskSKU, zones) ==
    IF ~vmSKU.valid THEN "error"
    ELSE CASE diskSKU = PremiumLRS ->
                IF CapabilityPremiumIO \in vmSKU.caps THEN "nil" ELSE "error"
           [] diskSKU = UltraSSDLRS ->
                IF ~vmSKU.zonesListed
                THEN IF CapabilityUltraSSD \in vmSKU.caps THEN "nil" ELSE "error"
                ELSE IF vmSKU.detailsNil THEN "nil"
                ELSE IF \A zone \in zones :
                            \E d \in vmSKU.details : zone \in d.Name /\ d.ultra
                     THEN "nil" ELSE "error"
           [] OTHER -> "nil"

(* The error of validateDiskSKUs for an UltraSSD data disk on an            *)
(* availability set.                                                       *)
AvailabilitySetError == "error: does not support availability sets"

(* The availability-set test validateDiskSKUs makes for an UltraSSD data disk. *)
usesAvailabilitySet(c) == c.AssignAvailabilitySet = "true" \/ c.AvailabilitySet # ""

validateDiskSKUs(c, skuOK, vmSKU) ==
    IF c.OSDiskSKU = "nil" /\ c.DataDiskSKU = "nil" THEN "nil"
    ELSE IF ~skuOK THEN "error"
    ELSE IF c.OSDiskSKU # "nil" /\ c.OSDiskSKU \notin osDiskSKUs THEN "error"
    ELSE IF c.OSDiskSKU # "nil" /\ supportsDiskSKU(vmSKU, c.OSDiskSKU, c.Zones) # "nil" THEN "error"
    ELSE IF c.DataDiskSKU = "nil" THEN "nil"
    ELSE IF c.DataDiskSKU \notin dataDiskSKUs THEN "error"
    ELSE IF c.DataDiskSKU = UltraSSDLRS /\ usesAvailabilitySet(c) THEN AvailabilitySetError
    ELSE supportsDiskSKU(vmSKU, c.DataDiskSKU, c.Zones)

(* vmSpec.VirtualMachineProperties.AvailabilitySet as Create sets it: the   *)
(* path of the availability set, or nil.                                   *)
vmSpecAvailabilitySet(c) ==
    IF \/ c.AssignAvailabilitySet = "nil" /\ c.AvailabilitySet # ""
       \/ c.AssignAvailabilitySet = "true" /\ c.AvailabilitySet # ""
    THEN "availabilitySets/" \o c.AvailabilitySet
    ELSE "nil"

(* PrimaryAvailabilitySetName of the cloud-config GetCloudConfig emits. *)
PrimaryAvailabilitySetName(c) ==
    IF \/ c.AssignAvailabilitySet = "nil" /\ c.AvailabilitySet # ""
       \/ c.AssignAvailabilitySet = "true" /\ c.AvailabilitySet # ""
    THEN c.AvailabilitySet
    ELSE ""

DiskInputs ==
    [c : [OSDiskSKU : DiskSKUChoices, DataDiskSKU : DiskSKUChoices, Zones : SUBSET ZoneNames,
          AssignAvailabilitySet : {"nil", "true", "false"}, AvailabilitySet : {"", "as-1"}],
     vmSKU : VMSKUs]

(* validateDiskSKUs on a configuration, with the VM SKU getSKU returns or  *)
(* its failure.                                                            *)
ValidateDiskSKUs ==
    /\ pc = "validateDiskSKUs"
    /\ pc' = "idle"
    /\ \E skuOK \in BOOLEAN :
          LET err == validateDiskSKUs(input.c, skuOK, input.vmSKU)
          IN  result' = [op |-> "validateDiskSKUs", done |-> (err = "nil"), err |-> err,
                         step |-> "return", skuOK |-> skuOK]
    /\ UNCHANGED <<store, machine, cfg, held, backend, calls, removed, startFin, vmGone>>

(* The part of Create that builds vmSpec, on the same configuration. *)
CreateVMSpec ==
    /\ pc = "validateDiskSKUs"
    /\ pc' = "idle"
    /\ result' = [op |-> "Create:vmSpec", done |-> TRUE, err |-> "nil", step |-> "return",
                  availabilitySet |-> vmSpecAvailabilitySet(input.c)]
    /\ UNCHANGED <<store, machine, cfg, held, backend, calls, removed, startFin, vmGone>>

(* provider.GetCloudConfig on the same configuration, getConfig succeeding *)
(* or not.                                                                 *)
GetCloudConfig ==
    /\ pc = "validateDiskSKUs"
    /\ pc' = "idle"
    /\ \E cfgOK \in BOOLEAN :
          result' = [op |-> "GetCloudConfig", done |-> cfgOK,
                     err |-> IF cfgOK THEN "nil" ELSE "error", step |-> "return",
                     avSet |-> IF cfgOK THEN PrimaryAvailabilitySetName(input.c) ELSE ""]
    /\ UNCHANGED <<store, machine, cfg, held, backend, calls, removed, startFin, vmGone>>

NextDisk ==
    \/ ValidateDiskSKUs
    \/ CreateVMSpec
    \/ GetCloudConfig

InitDisk ==
    /\ Fresh
    /\ cfg = [AssignPublicIP |-> FALSE, IPFamily |-> Unspecified, OSSupported |-> TRUE]
    /\ pc = "validateDiskSKUs"
    /\ vms = {}
    /\ iv = "none"
    /\ input \in DiskInputs

SpecDisk == InitDisk /\ [][NextDisk]_vars

-----------------------------------------------------------------------------
(* provider.AddDefaults *)

(* How often AddDefaults is applied to its own output. *)
MaxDefaults == 2

(* A MachineSpec as far as the provider reads it: optional fields of its   *)
(* provider spec, set or not.                                              *)
MachineSpecs ==
    [OSDiskSKU : DiskSKUChoices, DataDiskSKU : DiskSKUChoices, Zones : SUBSET ZoneNames,
     AssignPublicIP : {"nil", "true", "false"}]

(* Mutant: AddDefaults replaces the zones by the ones the spec leaves out. *)
AddDefaults_OtherZones(spec) ==
    [spec |-> [spec EXCEPT !.Zones = ZoneNames \ spec.Zones], err |-> "nil"]

AddDefaults(spec) == [spec |-> spec, err |-> "nil"]

(* AddDefaults on the Driver's spec, then on what it returned. *)
ApplyAddDefaults ==
    /\ pc = "AddDefaults"
    /\ pc' = "AddDefaults"
    /\ LET times == IF result.op = "AddDefaults" THEN result.times ELSE 0
           given == IF result.op = "AddDefaults" THEN result.spec ELSE input
           r == AddDefaults(given)
       IN  /\ times < MaxDefaults
           /\ result' = [op |-> "AddDefaults", done |-> (r.err = "nil"), err |-> r.err,
                         step |-> "return", given |-> given, spec |-> r.spec,
                         times |-> times + 1]
    /\ UNCHANGED <<store, machine, cfg, held, backend, calls, removed, startFin, vmGone>>

InitDefaults ==
    /\ Fresh
    /\ cfg = [AssignPublicIP |-> FALSE, IPFamily |-> Unspecified, OSSupported |-> TRUE]
    /\ pc = "AddDefaults"
    /\ vms = {}
    /\ iv = "none"
    /\ input \in MachineSpecs

SpecDefaults == InitDefaults /\ [][ApplyAddDefaults]_vars

-----------------------------------------------------------------------------
(* helper.GetServerAddressFromKubeconfig and helper.GetCACert *)

(* The longest server string, in parts. *)
MaxServerParts == 2

ClusterNames == {"cluster-a", "cluster-b"}

(* A server string as a sequence of parts, "https://" being one of them.   *)
Servers == SeqsUpTo({"https://", "api.example:6443"}, MaxServerParts)

ClusterConfigs == [Server : Servers, CertificateAuthorityData : {"", "ca-1"}]

(* kubeconfig.Clusters: a map from cluster names to cluster configurations. *)
Kubeconfigs == UNION {[names -> ClusterConfigs] : names \in SUBSET ClusterNames}

(* strings.Replace(server, "https://", "", -1) *)
ReplaceHTTPS(server) == SelectSeq(server, LAMBDA part : part # "https://")

(* The keys a range over the map can yield first. *)
RangeFirst(clusters) == IF DOMAIN clusters = {} THEN {"none"} ELSE DOMAIN clusters

(* Mutant: the number of clusters is not tested before the range. *)
GetServerAddressFromKubeconfig_AnyCount(clusters, first) ==
    IF DOMAIN clusters = {} THEN [val |-> <<>>, err |-> "error"]
    ELSE [val |-> ReplaceHTTPS(clusters[first].Server), err |-> "nil"]

(* first is the key the range over the map yields first. *)
GetServerAddressFromKubeconfig(clusters, first) ==
    IF Cardinality(DOMAIN clusters) # 1 THEN [val |-> <<>>, err |-> "error"]
    ELSE [val |-> ReplaceHTTPS(clusters[first].Server), err |-> "nil"]

GetCACert(clusters, first) ==
    IF Cardinality(DOMAIN clusters) # 1 THEN [val |-> "", err |-> "error"]
    ELSE [val |-> clusters[first].CertificateAuthorityData, err |-> "nil"]

HelperReturned(op, r, first) ==
    [op |-> op, done |-> (r.err = "nil"), err |-> r.err, step |-> "return",
     val |-> r.val, first |-> first]

ServerAddressFromKubeconfig ==
    /\ pc = "helper"
    /\ pc' = "idle"
    /\ \E first \in RangeFirst(input) :
          result' = HelperReturned("GetServerAddressFromKubeconfig",
                                   GetServerAddressFromKubeconfig(input, first), first)
    /\ UNCHANGED <<store, machine, cfg, held, backend, calls, removed, startFin, vmGone>>

CACert ==
    /\ pc = "helper"
    /\ pc' = "idle"
    /\ \E first \in RangeFirst(input) :
          result' = HelperReturned("GetCACert", GetCACert(input, first), first)
    /\ UNCHANGED <<store, machine, cfg, held, backend, calls, removed, startFin, vmGone>>

InitHelper ==
    /\ Fresh
    /\ cfg = [AssignPublicIP |-> FALSE, IPFamily |-> Unspecified, OSSupported |-> TRUE]
    /\ pc = "helper"
    /\ vms = {}
    /\ iv = "none"
    /\ input \in Kubeconfigs

NextHelper ==
    \/ ServerAddressFromKubeconfig
    \/ CACert

SpecHelper == InitHelper /\ [][NextHelper]_vars

-----------------------------------------------------------------------------
(* getSKU: the SKU lookup behind validateDiskSKUs, through the shared cache *)

MaxFetches == 2

Caller(at, key, last) == [pc |-> at, key |-> key, last |-> last]

(* What a step of getSKU leaves alone. *)
machineState ==
    <<store, machine, cfg, pc, backend, result, calls, removed, startFin, vmGone,
      startBackend, migrateTo, repeat, iv, storeB, input, driver>>

(* A goroutine reaches validateDiskSKUs with a disk SKU configured and     *)
(* calls getSKU for its location and VM size.                              *)
GetSKUCall(g) ==
    /\ callers[g].pc = "idle"
    /\ \E k \in SKUKeys : callers' = [callers EXCEPT ![g] = Caller("wait", k, "none")]
    /\ UNCHANGED <<cacheLock, cache, fetched, machineState>>

(* Mutant: the cache is entered without waiting for the mutex. *)
GetSKULock_NoWait(g) ==
    /\ callers[g].pc = "wait"
    /\ cacheLock' = g
    /\ callers' = [callers EXCEPT ![g].pc = "locked"]
    /\ UNCHANGED <<cache, fetched, machineState>>

(* cacheLock.Lock(): one mutex for every key. *)
GetSKULock(g) ==
    /\ callers[g].pc = "wait"
    /\ cacheLock = "free"
    /\ cacheLock' = g
    /\ callers' = [callers EXCEPT ![g].pc = "locked"]
    /\ UNCHANGED <<cache, fetched, machineState>>

(* The cache is read: a hit is returned, a miss goes on to the remote fetch. *)
GetSKULookup(g) ==
    /\ callers[g].pc = "locked"
    /\ callers' = [callers EXCEPT ![g] =
                      IF @.key \in cache THEN Caller("unlock", @.key, "hit")
                      ELSE Caller("fetch", @.key, "none")]
    /\ UNCHANGED <<cacheLock, cache, fetched, machineState>>

(* Mutant: the value fetched is returned without being written to the cache. *)
GetSKUFetch_NoStore(g) ==
    /\ callers[g].pc = "fetch"
    /\ Len(fetched[callers[g].key]) < MaxFetches
    /\ \E ok \in BOOLEAN :
          /\ fetched' = [fetched EXCEPT ![callers[g].key] = Append(@, ok)]
          /\ callers' = [callers EXCEPT ![g] =
                            Caller("unlock", @.key, IF ok THEN "fetched" ELSE "error")]
    /\ UNCHANGED <<cacheLock, cache, machineState>>

(* The remote fetch, made with the mutex held: its value is written to the *)
(* cache, its failure is returned and nothing is written.                  *)
GetSKUFetch(g) ==
    /\ callers[g].pc = "fetch"
    /\ Len(fetched[callers[g].key]) < MaxFetches
    /\ \E ok \in BOOLEAN :
          /\ fetched' = [fetched EXCEPT ![callers[g].key] = Append(@, ok)]
          /\ cache' = IF ok THEN cache \cup {callers[g].key} ELSE cache
          /\ callers' = [callers EXCEPT ![g] =
                            Caller("unlock", @.key, IF ok THEN "fetched" ELSE "error")]
    /\ UNCHANGED <<cacheLock, machineState>>

(* defer cacheLock.Unlock() *)
GetSKUUnlock(g) ==
    /\ callers[g].pc = "unlock"
    /\ cacheLock' = "free"
    /\ callers' = [callers EXCEPT ![g].pc = "idle"]
    /\ UNCHANGED <<cache, fetched, machineState>>

(* An entry reaches the end of its lifetime (10 minutes): a new window     *)
(* begins for its key.                                                     *)
Expire(k) ==
    /\ k \in cache
    /\ cache' = cache \ {k}
    /\ fetched' = [fetched EXCEPT ![k] = <<>>]
    /\ UNCHANGED <<cacheLock, callers, machineState>>

getSKU(g) ==
    \/ GetSKUCall(g)
    \/ GetSKULock(g)
    \/ GetSKULookup(g)
    \/ GetSKUFetch(g)
    \/ GetSKUUnlock(g)

NextCache ==
    \/ \E g \in Goroutines : getSKU(g)
    \/ \E k \in SKUKeys : Expire(k)

InitCache ==
    /\ Fresh
    /\ cfg = [AssignPublicIP |-> FALSE, IPFamily |-> Unspecified, OSSupported |-> TRUE]
    /\ pc = "idle"
    /\ vms = {}
    /\ iv = "none"
    /\ input = "none"

SpecCache == InitCache /\ [][NextCache]_vars

-----------------------------------------------------------------------------
(* Properties. *)

NoLifecycleFinalizer(fins) == \A f \in LifecycleFinalizers : ~HasFinalizer(fins, f)

Issued(c) == \E i \in DOMAIN calls : calls[i] = c

InCreate == pc \in CreateSteps \/ (pc = "idle" /\ result.op = "Create")

InCleanup == pc \in CleanupSteps \/ (pc = "idle" /\ result.op = "Cleanup")

Reverse(seq) == [i \in 1..Len(seq) |-> seq[Len(seq) + 1 - i]]

(* The sub-resources Create makes for the configuration, in creation order, *)
(* each named by the finalizer that stands for it.                          *)
CreatedKinds ==
    (IF cfg.AssignPublicIP THEN <<finalizerPublicIP>> ELSE <<>>)
    \o (IF cfg.AssignPublicIP /\ cfg.IPFamily = DualStack THEN <<finalizerPublicIPv6>> ELSE <<>>)
    \o <<finalizerNIC, finalizerDisks, finalizerVM>>

(* C1: during Create, the finalizer of every sub-resource (public IPv4,    *)
(* public IPv6, network interface, VM) is persisted on the Machine when    *)
(* the create-or-update call for that resource is issued, and no call      *)
(* follows an Update that failed.                                          *)
C1_FinalizerPersistedBeforeCreateCall ==
    InCreate =>
        \A i \in DOMAIN calls :
            /\ calls[i].op = "createOrUpdate" => HasFinalizer(store, calls[i].kind)
            /\ (calls[i].op = "update" /\ ~calls[i].ok) => i = Len(calls)

(* C2: during Cleanup a finalizer leaves the Machine only after the remote *)
(* deletion of its kind returned success in the same invocation, or, for   *)
(* the VM finalizer, after Get reported ErrInstanceNotFound.               *)
C2_FinalizerRemovedAfterConfirmedDeletion ==
    [][\A f \in LifecycleFinalizers :
         (HasFinalizer(store, f) /\ ~HasFinalizer(store', f)) =>
            \/ Issued(Call("delete", f, TRUE))
            \/ f = finalizerVM /\ Issued(Call("get", "ErrInstanceNotFound", TRUE))]_vars

C2_Witness ==
    /\ result = Returned("Cleanup", TRUE, "nil", "return")
    /\ removed = <<finalizerVM, finalizerDisks, finalizerNIC, finalizerPublicIP>>

(* C3: Cleanup returns done=true only when none of the five lifecycle      *)
(* finalizers remains on the Machine.                                      *)
C3_DoneOnlyWithoutFinalizers ==
    (result.op = "Cleanup" /\ result.done) => NoLifecycleFinalizer(store)

(* C4: when Get reports ErrInstanceNotFound (and no Update fails), Cleanup *)
(* returns done=true without error and the Machine carries no lifecycle    *)
(* finalizer.                                                              *)
C4_NotFoundCleanupEndsWithoutFinalizers ==
    (/\ pc = "idle"
     /\ result.op = "Cleanup"
     /\ result.err # "crash"
     /\ Issued(Call("get", "ErrInstanceNotFound", TRUE))
     /\ \A i \in DOMAIN calls : calls[i].ok)
    => (result.done /\ result.err = "nil" /\ NoLifecycleFinalizer(store))

(* C5: after a Cleanup deleted the VM and removed the VM finalizer, a      *)
(* Cleanup reports done=true only once the remaining resources are deleted *)
(* and the remaining finalizers removed.                                   *)
C5_ResumedCleanupFinishesTeardown ==
    (vmGone /\ result.op = "Cleanup" /\ result.done) =>
        /\ NoLifecycleFinalizer(store)
        /\ ByMachineUID(disks, MachineUID) = {}
        /\ ByMachineUID(ifaces, MachineUID) = {}
        /\ ByMachineUID(ips, MachineUID) = {}

(* C6: once a Cleanup deleted the VM and removed the VM finalizer, no      *)
(* later step issues the VM deletion call again.                           *)
C6_VMNotDeletedAgain ==
    [][(vmGone /\ Len(calls') > Len(calls)) =>
          calls'[Len(calls')] \notin {Call("delete", finalizerVM, TRUE),
                                      Call("delete", finalizerVM, FALSE)}]_vars

C6_Witness ==
    /\ vmGone
    /\ result.op = "Cleanup"
    /\ Issued(Call("get", "ErrInstanceNotFound", TRUE))

(* Position of a finalizer's deletion and Update in Cleanup's teardown. *)
TeardownStep(f) ==
    CASE f = finalizerVM -> 1
      [] f = finalizerDisks -> 2
      [] f = finalizerNIC -> 3
      [] f = finalizerPublicIP -> 4
      [] OTHER -> 5

(* C7: a deletion or Update of Cleanup that fails is the last call of the  *)
(* invocation, which returns done=false with an error, and the finalizers  *)
(* of that step and of every later step are as the invocation found them.  *)
C7_FailedStepLeavesLaterFinalizers ==
    InCleanup =>
        \A i \in DOMAIN calls :
            (calls[i].op \in {"delete", "update"} /\ ~calls[i].ok) =>
                /\ i = Len(calls)
                /\ pc = "idle"
                /\ result.op = "Cleanup" /\ ~result.done /\ result.err = "error"
                /\ \A f \in LifecycleFinalizers :
                      TeardownStep(f) >= TeardownStep(calls[i].kind) =>
                          (HasFinalizer(store, f) <=> HasFinalizer(startFin, f))

C7_Witness ==
    /\ result = Returned("Cleanup", FALSE, "error", "deleteNIC")
    /\ removed = <<finalizerVM, finalizerDisks>>
    /\ HasFinalizer(store, finalizerNIC)
    /\ HasFinalizer(store, finalizerPublicIP)

(* C8: a Cleanup that runs to completion on a fully created Machine        *)
(* removes the finalizers of the created sub-resources in the reverse of   *)
(* their creation order (VM, disks, network interface, public IPv6, public *)
(* IPv4) and ends with an empty finalizer set.                             *)
C8_CleanupRemovesInReverseCreationOrder ==
    (/\ result = Returned("Cleanup", TRUE, "nil", "return")
     /\ \A f \in {finalizerNIC, finalizerDisks, finalizerVM} : HasFinalizer(startFin, f)
     /\ cfg.AssignPublicIP => HasFinalizer(startFin, finalizerPublicIP))
    => (removed = Reverse(CreatedKinds) /\ store = <<>>)

(* C9: a successful Create that starts without finalizers leaves the       *)
(* finalizers of the sub-resources it created in creation order: with      *)
(* AssignPublicIP and dual-stack, [PublicIP, PublicIPv6, NIC, Disks, VM].  *)
C9_FinalizersInCreationOrder ==
    (result = Returned("Create", TRUE, "nil", "return") /\ startFin = <<>>)
    => store = CreatedKinds

(* C10: whatever Create invocations ran, failed or stopped, the backend    *)
(* holds at most one VM, one network interface, one public IPv4 and one    *)
(* public IPv6 address of the Machine.                                     *)
C10_AtMostOneOfEachResource ==
    /\ Cardinality(ByMachineUID(vms, MachineUID)) <= 1
    /\ Cardinality(ByMachineUID(ifaces, MachineUID)) <= 1
    /\ Cardinality({r \in ByMachineUID(ips, MachineUID) : r.version = IPv4}) <= 1
    /\ Cardinality({r \in ByMachineUID(ips, MachineUID) : r.version = IPv6}) <= 1

C10_Witness ==
    /\ result = Returned("Create", TRUE, "nil", "return")
    /\ HasFinalizer(startFin, finalizerVM)
    /\ Cardinality(vms) = 1
    /\ Cardinality(ifaces) = 1
    /\ Cardinality(ips) = 2

(* C11: when configuration resolution fails, Create returns a             *)
(* TerminalError{InvalidConfiguration} and no Instance, having made no     *)
(* Update and no remote call: finalizers and backend are as it found them. *)
C11_ConfigFailureIsTerminalAndChangesNothing ==
    (result.op = "Create" /\ result.step = "getConfig") =>
        /\ result.err = "terminal"
        /\ ~result.done
        /\ calls = <<>>
        /\ store = startFin
        /\ backend = startBackend

C11_Witness ==
    /\ result = Returned("Create", FALSE, "terminal", "getConfig")
    /\ store # <<>>
    /\ vms # {}

(* C12: every remote call or Update of Create that fails ends the          *)
(* invocation with a retriable error, and Create returns a TerminalError   *)
(* only from configuration resolution.                                     *)
C12_CreateFailuresAreRetriable ==
    InCreate =>
        /\ \A i \in DOMAIN calls :
              ~calls[i].ok => (i = Len(calls) /\ pc = "idle" /\ result.err = "error" /\ ~result.done)
        /\ result.err = "terminal" => result.step = "getConfig"

C12_Witness ==
    /\ result = Returned("Create", FALSE, "error", "VM")
    /\ calls[Len(calls)] = Call("createOrUpdate", finalizerVM, FALSE)


(* C13: Get returns the sentinel ErrInstanceNotFound exactly when the      *)
(* listing succeeded and holds no VM tagged with the Machine's UID; a      *)
(* listing that failed is returned as another error.                       *)
C13_GetNotFoundExactlyWhenNoVMOfUID ==
    result.op = "Get" =>
        /\ (result.err = "ErrInstanceNotFound") <=>
               /\ Issued(Call("read", "ListAll", TRUE))
               /\ \A vm \in vms : vm.uid # machine.UID
        /\ Issued(Call("read", "ListAll", FALSE)) => result.err = "error"

C13_Witness ==
    /\ result.op = "Get"
    /\ result.err = "ErrInstanceNotFound"
    /\ vms = ForeignVMs

(* C14: whatever instance view the backend returns, the status mapping     *)
(* returns Unknown, Creating, Running or Deleting and does not panic.      *)
C14_StatusMappingNeverPanics ==
    (result.op = "getVMStatus" /\ result.err # "error") =>
        /\ result.err = "nil"
        /\ result.status \in {StatusUnknown, StatusCreating, StatusRunning, StatusDeleting}

(* C15: a Get or a Validate, whatever it returns, leaves the Machine's     *)
(* finalizers and every backend resource as they were.                     *)
C15_GetAndValidateReadOnly ==
    [][(pc = "idle" /\ result'.op \in {"Get", "Validate"}) =>
           (store' = store /\ backend' = backend)]_vars

C15_Witness ==
    /\ result.op = "Get"
    /\ result.err = "ErrInstanceNotFound"
    /\ HasFinalizer(store, finalizerVM)
    /\ ifaces # {}


InMigrate == pc \in MigrateSteps \/ (pc = "idle" /\ result.op = "MigrateUID")

CreationStep(f) ==
    CASE f = finalizerPublicIP -> 1
      [] f = finalizerPublicIPv6 -> 2
      [] f = finalizerNIC -> 3
      [] f = finalizerDisks -> 4
      [] OTHER -> 5

(* C16: MigrateUID re-tags only sub-resources whose finalizer is on the    *)
(* Machine, and in creation order: public IPv4, public IPv6, network       *)
(* interface, disks, VM.                                                   *)
C16_RetagsFinalizedResourcesInCreationOrder ==
    InMigrate =>
        /\ \A i \in DOMAIN calls : HasFinalizer(machine.Finalizers, calls[i].kind)
        /\ \A i, j \in DOMAIN calls :
              i < j => CreationStep(calls[i].kind) < CreationStep(calls[j].kind)

(* A resource without its Machine-UID tag. *)
Untagged(r) == [r EXCEPT !.uid = ""]

(* C17: a sub-resource MigrateUID re-applied differs from what it was      *)
(* before the call in its Machine-UID tag only.                            *)
C17_OnlyTheTagDiffers ==
    InMigrate =>
        \A k \in DOMAIN backend :
            \A r \in backend[k] : \A q \in startBackend[k] :
                q.name = r.name => Untagged(r) = Untagged(q)


(* The resources of backend state b that a finalizer stands for. *)
ResourcesOf(f, b) ==
    CASE f = finalizerPublicIP -> {r \in b[3] : r.version = IPv4}
      [] f = finalizerPublicIPv6 -> {r \in b[3] : r.version = IPv6}
      [] f = finalizerNIC -> b[2]
      [] f = finalizerDisks -> b[4]
      [] OTHER -> b[1]

(* C18: a re-tagging call of MigrateUID that fails is the last call of the *)
(* invocation, which returns an error; the resources re-tagged before it   *)
(* carry the new UID and the resources of the later steps are as they were *)
(* when the invocation began.                                              *)
C18_FailedRetagStopsMigration ==
    InMigrate =>
        \A i \in DOMAIN calls :
            ~calls[i].ok =>
                /\ i = Len(calls)
                /\ pc = "idle"
                /\ result.err = "error"
                /\ ~result.done
                /\ \A j \in 1..(i - 1) :
                      \A r \in ResourcesOf(calls[j].kind, backend) : r.uid = migrateTo
                /\ \A f \in LifecycleFinalizers :
                      CreationStep(f) > CreationStep(calls[i].kind) =>
                          ResourcesOf(f, backend) = ResourcesOf(f, startBackend)

C18_Witness ==
    /\ result = Returned("MigrateUID", FALSE, "error", "disks")
    /\ Len(calls) = 3
    /\ ~calls[3].ok
    /\ disks # {}
    /\ \E vm \in vms : vm.uid # migrateTo


AllTagged(b, uid) == \A k \in DOMAIN b : \A r \in b[k] : r.uid = uid

(* C19: a successful MigrateUID that repeats the successful call before it *)
(* with the same new UID leaves the backend as the first call left it, and *)
(* every sub-resource of the Machine tagged with that UID.                 *)
C19_SecondMigrationChangesNothing ==
    (result = Returned("MigrateUID", TRUE, "nil", "return") /\ repeat) =>
        /\ backend = startBackend
        /\ AllTagged(backend, migrateTo)

(* The Machine's sub-resources and finalizers as a successful Create      *)
(* leaves them.                                                            *)
CreatedBy(b, uid) ==
    /\ \A i \in DOMAIN CreatedKinds : ResourcesOf(CreatedKinds[i], b) # {}
    /\ AllTagged(b, uid)
    /\ \A f \in {finalizerNIC, finalizerDisks, finalizerVM} : HasFinalizer(startFin, f)
    /\ cfg.AssignPublicIP => HasFinalizer(startFin, finalizerPublicIP)

(* C20: after a successful MigrateUID on a Machine whose sub-resources     *)
(* Create made, every one of them is tagged with the new UID and the VM is *)
(* found under it.                                                         *)
C20_CreatedResourcesCarryNewUID ==
    (result = Returned("MigrateUID", TRUE, "nil", "return") /\ CreatedBy(startBackend, machine.UID)) =>
        /\ AllTagged(backend, migrateTo)
        /\ getVMByUID(vms, migrateTo) # {}


(* The goroutines inside the cache: past Lock and not yet past Unlock. *)
InsideCache == {g \in Goroutines : callers[g].pc \in {"locked", "fetch", "unlock"}}

Successes(outcomes) == Cardinality({i \in DOMAIN outcomes : outcomes[i]})

C22_OneGoroutineInsideCache ==
    /\ Cardinality(InsideCache) <= 1
    /\ \A g \in InsideCache : cacheLock = g

C22_Witness ==
    \E g, h \in Goroutines :
        /\ callers[g].pc = "fetch"
        /\ callers[h].pc = "wait"
        /\ callers[g].key # callers[h].key


(* The backend resources that belong to the second Machine. *)
BackendOfB ==
    <<ByMachineUID(vms, MachineB.UID), ByMachineUID(ifaces, MachineB.UID),
      ByMachineUID(ips, MachineB.UID), ByMachineUID(disks, MachineB.UID)>>

(* C23: no step of Create, Cleanup or MigrateUID on this Machine, however  *)
(* interleaved with the second Machine's operations, changes the second    *)
(* Machine's finalizers or creates, re-tags or deletes a resource of it.   *)
C23_OtherMachineUntouched ==
    [][ThisMachine => (storeB' = storeB /\ BackendOfB' = BackendOfB)]_vars

C23_Witness ==
    /\ result = Returned("Cleanup", TRUE, "nil", "return")
    /\ removed # <<>>
    /\ Len(storeB) = 4
    /\ \A k \in DOMAIN BackendOfB : BackendOfB[k] # {}


(* C24: a Get during which the read of the interface's addresses failed    *)
(* returns an error, not an Instance.                                      *)
C24_AddressReadFailurePropagated ==
    (result.op = "Get" /\ Issued(Call("read", "getNICIPAddresses", FALSE))) =>
        (result.err # "nil" /\ ~result.done)


(* The create-or-update call of Create for a kind of resource was issued   *)
(* before call i of this invocation and succeeded.                         *)
CreatedBefore(kind, i) ==
    \E j \in 1..(i - 1) : calls[j] = Call("createOrUpdate", kind, TRUE)

(* C25: Create issues the network interface call only after every public   *)
(* IP call the configuration asks for succeeded, the VM call only after    *)
(* the network interface call succeeded, and no call after one that failed. *)
C25_CreateInDependencyOrder ==
    InCreate =>
        \A i \in DOMAIN calls :
            /\ (calls[i].op = "createOrUpdate" /\ calls[i].kind = finalizerPublicIPv6) =>
                   CreatedBefore(finalizerPublicIP, i)
            /\ (calls[i].op = "createOrUpdate" /\ calls[i].kind = finalizerNIC) =>
                   /\ cfg.AssignPublicIP => CreatedBefore(finalizerPublicIP, i)
                   /\ (cfg.AssignPublicIP /\ cfg.IPFamily = DualStack) =>
                          CreatedBefore(finalizerPublicIPv6, i)
            /\ (calls[i].op = "createOrUpdate" /\ calls[i].kind = finalizerVM) =>
                   CreatedBefore(finalizerNIC, i)
            /\ ~calls[i].ok => i = Len(calls)

C25_Witness ==
    /\ result = Returned("Create", FALSE, "error", "VM")
    /\ cfg.AssignPublicIP
    /\ cfg.IPFamily = DualStack
    /\ Issued(Call("createOrUpdate", finalizerPublicIPv6, TRUE))
    /\ Issued(Call("createOrUpdate", finalizerNIC, TRUE))


(* C26: a credential field whose literal is empty, whose secret reference  *)
(* gives a value and whose environment variable is set resolves to the     *)
(* secret's value; the environment variable's value is returned only when  *)
(* the field itself resolves to nothing.                                   *)
C26_SecretBeforeEnvironment ==
    (result.op = "getConfig" /\ input.field \in EnvFields) =>
        /\ (input.value.literal = "" /\ input.value.secret = "value") =>
               (result.err = "nil" /\ result.value = "secret-value")
        /\ (result.err = "nil" /\ result.value = "$" \o EnvOf(input.field)) =>
               GetConfigVarStringValue(input.value).val = ""

C26_Witness ==
    /\ result.op = "getConfig"
    /\ input.field = "clientSecret"
    /\ input.value = [literal |-> "", secret |-> "value"]
    /\ envClientSecret \in input.env
    /\ result.value = "secret-value"


(* C27: a Validate that finds a required field empty, or an IP family that *)
(* is IPv6 alone or unknown, returns an error without having issued a      *)
(* remote call.                                                            *)
C27_ValidateFailsBeforeRemoteCalls ==
    result.op = "Validate" =>
        /\ result.step \in Range(RequiredFields) => (~result.done /\ calls = <<>>)
        /\ (result.step # "getConfig" /\ cfg.IPFamily \in {IPv6, UnknownFamily}) =>
               (~result.done /\ calls = <<>>)
        /\ (result.done \/ result.step \in Range(ValidateReads) \cup {"getOSImageReference"}) =>
               cfg.IPFamily \in {Unspecified, IPv4, DualStack}

C27_Witness ==
    /\ result = Returned("Validate", FALSE, "error", "ipFamily")
    /\ cfg.IPFamily = UnknownFamily
    /\ calls = <<>>


(* A VM SKU offers UltraSSD for a configuration: in every configured zone  *)
(* when the SKU lists zones, by its own capability otherwise.              *)
OffersUltraSSD(vmSKU, zones) ==
    IF vmSKU.zonesListed
    THEN \A zone \in zones : \E d \in vmSKU.details : zone \in d.Name /\ d.ultra
    ELSE CapabilityUltraSSD \in vmSKU.caps

(* A disk SKU of the configuration is not compatible with the VM size. *)
IncompatibleDiskSKU(c, vmSKU) ==
    \/ c.OSDiskSKU # "nil" /\ c.OSDiskSKU \notin {StandardLRS, StandardSSDLRS, PremiumLRS}
    \/ c.DataDiskSKU # "nil"
       /\ c.DataDiskSKU \notin {StandardLRS, StandardSSDLRS, PremiumLRS, UltraSSDLRS}
    \/ PremiumLRS \in {c.OSDiskSKU, c.DataDiskSKU} /\ CapabilityPremiumIO \notin vmSKU.caps
    \/ UltraSSDLRS \in {c.OSDiskSKU, c.DataDiskSKU} /\ ~OffersUltraSSD(vmSKU, c.Zones)

(* C28: validateDiskSKUs returns an error for every configuration with a   *)
(* disk SKU that is not compatible with the VM size.                       *)
C28_IncompatibleDiskSKURejected ==
    (result.op = "validateDiskSKUs" /\ IncompatibleDiskSKU(input.c, input.vmSKU)) =>
        result.err # "nil"


(* C29: for an instance view with fewer than two status entries the status *)
(* mapping returns without an error and with a status other than Running.  *)
C29_ShortViewIsNotRunningNotError ==
    (result.op = "getVMStatus" /\ result.viewed /\ Len(iv.statuses) < 2) =>
        /\ result.err = "nil"
        /\ result.status # StatusRunning


(* C30: MachineMetricsLabels leaves the Machine's finalizers and the        *)
(* backend as they were and returns a label map that is not nil: empty     *)
(* with the error when the configuration cannot be read, exactly size and  *)
(* location with no error otherwise.                                       *)
C30_MetricsLabelsReadOnlyAndNonNil ==
    /\ [](result.op = "MachineMetricsLabels" =>
            /\ ~result.labels.isNil
            /\ result.err # "nil" => result.labels.entries = {}
            /\ result.err = "nil" =>
                  result.labels.entries = {<<"size", VMSize>>, <<"location", Location>>})
    /\ [][(pc = "idle" /\ result'.op = "MachineMetricsLabels") =>
              (store' = store /\ backend' = backend)]_vars

C30_Witness ==
    /\ result.op = "MachineMetricsLabels"
    /\ result.err = "error"
    /\ result.labels = Labels(FALSE, {})
    /\ store # <<>>
    /\ vms # {}


(* C31: AddDefaults applied to its own output returns that output again,   *)
(* it returns no error, and it leaves the Machine's finalizers and the     *)
(* backend as they were.                                                   *)
C31_AddDefaultsIdempotentAndPure ==
    /\ [](result.op = "AddDefaults" =>
            /\ result.err = "nil"
            /\ result.times > 1 => result.spec = result.given)
    /\ [][result'.op = "AddDefaults" => (store' = store /\ backend' = backend)]_vars

C31_Witness ==
    /\ result.op = "AddDefaults"
    /\ result.times = MaxDefaults
    /\ result.spec.Zones # {}
    /\ result.spec.OSDiskSKU = "nil"


(* C32: GetServerAddressFromKubeconfig and GetCACert return an error       *)
(* exactly when the cluster map does not hold exactly one entry; otherwise *)
(* they return the server address (without "https://") and the CA data of  *)
(* that entry, whichever key the range yields first.                       *)
C32_ErrorUnlessExactlyOneCluster ==
    result.op \in {"GetServerAddressFromKubeconfig", "GetCACert"} =>
        /\ result.err # "nil" <=> Cardinality(DOMAIN input) # 1
        /\ result.err = "nil" =>
              \A name \in DOMAIN input :
                  result.val = IF result.op = "GetCACert"
                               THEN input[name].CertificateAuthorityData
                               ELSE ReplaceHTTPS(input[name].Server)

C32_Witness ==
    /\ result.op = "GetServerAddressFromKubeconfig"
    /\ result.err = "nil"
    /\ DOMAIN input = {"cluster-b"}
    /\ input["cluster-b"].Server = <<"https://", "api.example:6443">>
    /\ result.val = <<"api.example:6443">>


(* C33: a Cleanup whose Get failed with an error other than                *)
(* ErrInstanceNotFound has gone on to the deletion of the VM.              *)
C33_GetErrorStillDeletesVM ==
    (/\ pc = "idle"
     /\ result.op = "Cleanup"
     /\ \E i \in DOMAIN calls : calls[i] = Call("get", "error", FALSE)) =>
        \E j \in DOMAIN calls : calls[j].op = "delete" /\ calls[j].kind = finalizerVM


(* C34: whenever a Cleanup has returned done=true, the backend holds no    *)
(* VM, disk, network interface or public address of the Machine.           *)
C34_NoLeakAfterTeardown ==
    (pc = "idle" /\ result.op = "Cleanup" /\ result.done) =>
        /\ ByMachineUID(vms, MachineUID) = {}
        /\ ByMachineUID(disks, MachineUID) = {}
        /\ ByMachineUID(ifaces, MachineUID) = {}
        /\ ByMachineUID(ips, MachineUID) = {}


C36_CreateConverges ==
    (driver = "Create" /\ cfg.OSSupported) ~>
        (/\ pc = "idle"
         /\ result = Returned("Create", TRUE, "nil", "return")
         /\ HasFinalizer(store, finalizerNIC)
         /\ HasFinalizer(store, finalizerDisks)
         /\ HasFinalizer(store, finalizerVM)
         /\ cfg.AssignPublicIP => HasFinalizer(store, finalizerPublicIP))

C36_Witness ==
    /\ driver = "Create"
    /\ result = Returned("Create", TRUE, "nil", "return")
    /\ startFin = <<finalizerPublicIP, finalizerNIC>>
    /\ store = <<finalizerPublicIP, finalizerNIC, finalizerDisks, finalizerVM>>


(* C37: whatever Create and Cleanup invocations ran, failed or stopped on  *)
(* a Machine that began without finalizers, the VM finalizer is on the     *)
(* Machine only with the Disks finalizer, and the Disks finalizer only     *)
(* with the NIC finalizer.                                                 *)
C37_FinalizerDependency ==
    /\ HasFinalizer(store, finalizerVM) => HasFinalizer(store, finalizerDisks)
    /\ HasFinalizer(store, finalizerDisks) => HasFinalizer(store, finalizerNIC)

C37_Witness ==
    /\ result = Returned("Create", TRUE, "nil", "return")
    /\ startFin = <<finalizerNIC, finalizerDisks>>
    /\ removed = <<>>
    /\ store = <<finalizerNIC, finalizerDisks, finalizerVM>>


(* C38: no lifecycle finalizer is on the Machine twice, also when the      *)
(* record handed to an Update's mutator is newer than the machine object   *)
(* Create was called with.                                                 *)
C38_NoFinalizerTwice ==
    \A i, j \in DOMAIN store :
        (store[i] = store[j] /\ store[i] \in LifecycleFinalizers) => i = j


(* validateDiskSKUs came as far as its availability-set test. *)
ReachedAvailabilitySetTest ==
    /\ result.op = "validateDiskSKUs"
    /\ result.skuOK
    /\ input.c.DataDiskSKU = UltraSSDLRS
    /\ \/ input.c.OSDiskSKU = "nil"
       \/ /\ input.c.OSDiskSKU \in osDiskSKUs
          /\ supportsDiskSKU(input.vmSKU, input.c.OSDiskSKU, input.c.Zones) = "nil"

(* C39: for an UltraSSD_LRS data disk Validate returns the availability-set *)
(* error exactly for the values of AssignAvailabilitySet and AvailabilitySet *)
(* for which Create sets the availability set of the VM, and Create and    *)
(* GetCloudConfig agree on those values.                                   *)
C39_AvailabilitySetAgreement ==
    /\ ReachedAvailabilitySetTest =>
          (result.err = AvailabilitySetError <=> vmSpecAvailabilitySet(input.c) # "nil")
    /\ result.op = "Create:vmSpec" =>
          (result.availabilitySet # "nil" <=> PrimaryAvailabilitySetName(input.c) # "")
    /\ (result.op = "GetCloudConfig" /\ result.done) =>
          (result.avSet # "" <=> vmSpecAvailabilitySet(input.c) # "nil")

====
